---- MODULE Spec2Model ----
(***************************************************************************)
(* A model of the streaming JSON-to-XML tool-call transcoder of            *)
(* src/core/task/tool-call-helper.ts (StreamingToolCallProcessor).         *)
(*                                                                         *)
(* Text is modelled as a sequence of one-character strings.  Tool names    *)
(* are sequences of name pieces ("read_", "file"), so that a name can      *)
(* arrive in fragments and be concatenated as the code concatenates it.    *)
(* The cursor is 0-based as in the code: the character at the cursor of    *)
(* the text str is str[cursor + 1].                                        *)
(***************************************************************************)
EXTENDS Integers, Sequences, FiniteSets, TLC

VARIABLES
    accumulatedToolCalls,   \* index -> [id, name, arguments]; DOMAIN = the indices seen
    processingStates,       \* index -> ToolCallProcessingState
    doc,                    \* environment: index -> the arguments text the provider is sending
    out,                    \* history: index -> all XML returned so far for that index
    last,                   \* history: what the last call was and what it returned
    finalizeCalls,          \* history: number of finalize() calls since construction / reset
    threw,                  \* history: an error has escaped to the caller
    toolArgs,               \* environment: the arguments of getToolAvailability
    toolAvailability        \* history: what getToolAvailability has returned

vars == <<accumulatedToolCalls, processingStates, doc, out, last, finalizeCalls, threw,
          toolArgs, toolAvailability>>

\* the variables of getToolAvailability
availabilityVars == <<toolArgs, toolAvailability>>

-----------------------------------------------------------------------------
(* Text helpers *)

Chars(s) == [i \in 1..Len(s) |-> SubSeq(s, i, i)]

Max0(n) == IF n > 0 THEN n ELSE 0

Digits == {"0", "1", "2", "3", "4", "5", "6", "7", "8", "9"}

LowerLetters ==
    {"a", "b", "c", "d", "e", "f", "g", "h", "i", "j", "k", "l", "m",
     "n", "o", "p", "q", "r", "s", "t", "u", "v", "w", "x", "y", "z"}

UpperLetters ==
    {"A", "B", "C", "D", "E", "F", "G", "H", "I", "J", "K", "L", "M",
     "N", "O", "P", "Q", "R", "S", "T", "U", "V", "W", "X", "Y", "Z"}

\* /\s/ of the code, on the characters the model uses
IsWhitespace(c) == c \in {" ", "\t", "\n", "\r"}

\* characters below U+0020, which JSON.parse rejects unescaped inside a string
IsControl(c) == c \in {"\t", "\n", "\r"}

IsHexDigit(c) == c \in Digits \cup {"a", "b", "c", "d", "e", "f", "A", "B", "C", "D", "E", "F"}

\* /^[0-9a-fA-F]{4}$/
IsHex4(h) == Len(h) = 4 /\ \A k \in 1..4 : IsHexDigit(h[k])

HexVal(c) ==
    CASE c = "0" -> 0 [] c = "1" -> 1 [] c = "2" -> 2 [] c = "3" -> 3 [] c = "4" -> 4
      [] c = "5" -> 5 [] c = "6" -> 6 [] c = "7" -> 7 [] c = "8" -> 8 [] c = "9" -> 9
      [] c \in {"a", "A"} -> 10 [] c \in {"b", "B"} -> 11 [] c \in {"c", "C"} -> 12
      [] c \in {"d", "D"} -> 13 [] c \in {"e", "E"} -> 14 [] c \in {"f", "F"} -> 15

\* the character with a given code unit: the ones the documents use by name,
\* any other one as the atom "U+<code>"
CharOfCode(n) ==
    CASE n = 10 -> "\n" [] n = 9 -> "\t" [] n = 34 -> "\"" [] n = 65 -> "A" [] n = 66 -> "B"
      [] OTHER -> "U+" \o ToString(n)

UnicodeChar(h) == CharOfCode(4096 * HexVal(h[1]) + 256 * HexVal(h[2]) + 16 * HexVal(h[3]) + HexVal(h[4]))

\* str.trim() === "" on the text from position pos (0-based) on
OnlyWhitespaceFrom(str, pos) == \A k \in (pos + 1)..Len(str) : IsWhitespace(str[k])

IsPrefix(a, b) == Len(a) <= Len(b) /\ SubSeq(b, 1, Len(a)) = a

-----------------------------------------------------------------------------
(* JSON.parse of a one-escape string literal, and of a whole string literal *)

\* JSON.parse('"' + esc + '"') for esc = a backslash and one character, or \uXXXX:
\* ok = FALSE stands for the SyntaxError
JsonParseEscape(esc) ==
    LET c == esc[2] IN
    CASE c = "\"" -> [ok |-> TRUE, val |-> <<"\"">>]
      [] c = "\\" -> [ok |-> TRUE, val |-> <<"\\">>]
      [] c = "/"  -> [ok |-> TRUE, val |-> <<"/">>]
      [] c = "n"  -> [ok |-> TRUE, val |-> <<"\n">>]
      [] c = "t"  -> [ok |-> TRUE, val |-> <<"\t">>]
      [] c = "r"  -> [ok |-> TRUE, val |-> <<"\r">>]
      [] c = "b"  -> [ok |-> TRUE, val |-> <<"U+8">>]
      [] c = "f"  -> [ok |-> TRUE, val |-> <<"U+12">>]
      [] c = "u" /\ Len(esc) = 6 /\ IsHex4(SubSeq(esc, 3, 6))
                  -> [ok |-> TRUE, val |-> <<UnicodeChar(SubSeq(esc, 3, 6))>>]
      [] OTHER    -> [ok |-> FALSE, val |-> <<>>]

\* JSON.parse('"' + body + '"'): the decoded text, or ok = FALSE
RECURSIVE JsonParseStringBody(_, _, _)
JsonParseStringBody(body, pos, acc) ==
    IF pos > Len(body) THEN [ok |-> TRUE, val |-> acc]
    ELSE LET c == body[pos] IN
         IF c = "\"" \/ IsControl(c) THEN [ok |-> FALSE, val |-> <<>>]
         ELSE IF c = "\\"
         THEN IF pos + 1 > Len(body) THEN [ok |-> FALSE, val |-> <<>>]
              ELSE LET n == IF body[pos + 1] = "u" THEN 6 ELSE 2
                       d == IF pos + n - 1 <= Len(body)
                            THEN JsonParseEscape(SubSeq(body, pos, pos + n - 1))
                            ELSE [ok |-> FALSE, val |-> <<>>]
                   IN IF d.ok THEN JsonParseStringBody(body, pos + n, acc \o d.val)
                      ELSE [ok |-> FALSE, val |-> <<>>]
         ELSE JsonParseStringBody(body, pos + 1, Append(acc, c))

-----------------------------------------------------------------------------
(* JSON.parse of a whole text: whether it parses.  Positions are 1-based;   *)
(* each operator gives the position after what it has read, 0 for a         *)
(* SyntaxError.                                                             *)

\* the first position from p on that holds no JSON whitespace
RECURSIVE SkipWs(_, _)
SkipWs(t, p) == IF p <= Len(t) /\ IsWhitespace(t[p]) THEN SkipWs(t, p + 1) ELSE p

\* the first position from p on that holds no digit
RECURSIVE DigitsEnd(_, _)
DigitsEnd(t, p) == IF p <= Len(t) /\ t[p] \in Digits THEN DigitsEnd(t, p + 1) ELSE p

\* the rest of a string literal whose opening quote is before p
RECURSIVE JsonStringEnd(_, _)
JsonStringEnd(t, p) ==
    IF p > Len(t) THEN 0
    ELSE IF t[p] = "\"" THEN p + 1
    ELSE IF t[p] = "\\"
    THEN IF p + 1 > Len(t) THEN 0
         ELSE IF t[p + 1] = "u"
         THEN IF p + 5 <= Len(t) /\ IsHex4(SubSeq(t, p + 2, p + 5)) THEN JsonStringEnd(t, p + 6) ELSE 0
         ELSE IF t[p + 1] \in {"\"", "\\", "/", "b", "f", "n", "r", "t"} THEN JsonStringEnd(t, p + 2)
         ELSE 0
    ELSE IF IsControl(t[p]) THEN 0
    ELSE JsonStringEnd(t, p + 1)

\* the optional exponent of a number, from p
JsonExponentEnd(t, p) ==
    IF p <= Len(t) /\ t[p] \in {"e", "E"}
    THEN LET q == IF p + 1 <= Len(t) /\ t[p + 1] \in {"+", "-"} THEN p + 2 ELSE p + 1
         IN IF DigitsEnd(t, q) > q THEN DigitsEnd(t, q) ELSE 0
    ELSE p

\* the optional fraction of a number, from p, and the exponent after it
JsonFractionEnd(t, p) ==
    IF p <= Len(t) /\ t[p] = "."
    THEN IF DigitsEnd(t, p + 1) > p + 1 THEN JsonExponentEnd(t, DigitsEnd(t, p + 1)) ELSE 0
    ELSE JsonExponentEnd(t, p)

\* a number whose first digit is expected at p
JsonNumberEnd(t, p) ==
    IF p > Len(t) \/ t[p] \notin Digits THEN 0
    ELSE IF t[p] = "0" THEN JsonFractionEnd(t, p + 1)
    ELSE JsonFractionEnd(t, DigitsEnd(t, p))

\* the literal lit at p
JsonLiteralEnd(t, p, lit) ==
    IF p + Len(lit) - 1 <= Len(t) /\ SubSeq(t, p, p + Len(lit) - 1) = lit THEN p + Len(lit) ELSE 0

RECURSIVE JsonValueEnd(_, _)
RECURSIVE JsonMembersEnd(_, _)
RECURSIVE JsonElementsEnd(_, _)
RECURSIVE JsonAfterKey(_, _)
RECURSIVE JsonAfterMember(_, _)
RECURSIVE JsonAfterElement(_, _)

\* a value that starts at p, where no whitespace is
JsonValueEnd(t, p) ==
    IF p > Len(t) THEN 0
    ELSE CASE t[p] = "{" -> IF SkipWs(t, p + 1) <= Len(t) /\ t[SkipWs(t, p + 1)] = "}"
                            THEN SkipWs(t, p + 1) + 1
                            ELSE JsonMembersEnd(t, SkipWs(t, p + 1))
           [] t[p] = "[" -> IF SkipWs(t, p + 1) <= Len(t) /\ t[SkipWs(t, p + 1)] = "]"
                            THEN SkipWs(t, p + 1) + 1
                            ELSE JsonElementsEnd(t, SkipWs(t, p + 1))
           [] t[p] = "\"" -> JsonStringEnd(t, p + 1)
           [] t[p] = "-" -> JsonNumberEnd(t, p + 1)
           [] t[p] \in Digits -> JsonNumberEnd(t, p)
           [] t[p] = "t" -> JsonLiteralEnd(t, p, <<"t", "r", "u", "e">>)
           [] t[p] = "f" -> JsonLiteralEnd(t, p, <<"f", "a", "l", "s", "e">>)
           [] t[p] = "n" -> JsonLiteralEnd(t, p, <<"n", "u", "l", "l">>)
           [] OTHER -> 0

\* the members of an object and its closing brace; a key is expected at p
JsonMembersEnd(t, p) ==
    IF p > Len(t) \/ t[p] # "\"" THEN 0 ELSE JsonAfterKey(t, JsonStringEnd(t, p + 1))

\* e is the position after a key
JsonAfterKey(t, e) ==
    IF e = 0 \/ SkipWs(t, e) > Len(t) \/ t[SkipWs(t, e)] # ":" THEN 0
    ELSE JsonAfterMember(t, JsonValueEnd(t, SkipWs(t, SkipWs(t, e) + 1)))

\* e is the position after a member's value
JsonAfterMember(t, e) ==
    IF e = 0 \/ SkipWs(t, e) > Len(t) THEN 0
    ELSE IF t[SkipWs(t, e)] = "}" THEN SkipWs(t, e) + 1
    ELSE IF t[SkipWs(t, e)] = "," THEN JsonMembersEnd(t, SkipWs(t, SkipWs(t, e) + 1))
    ELSE 0

\* the elements of an array and its closing bracket; a value is expected at p
JsonElementsEnd(t, p) == JsonAfterElement(t, JsonValueEnd(t, p))

\* e is the position after an element
JsonAfterElement(t, e) ==
    IF e = 0 \/ SkipWs(t, e) > Len(t) THEN 0
    ELSE IF t[SkipWs(t, e)] = "]" THEN SkipWs(t, e) + 1
    ELSE IF t[SkipWs(t, e)] = "," THEN JsonElementsEnd(t, SkipWs(t, SkipWs(t, e) + 1))
    ELSE 0

\* JSON.parse(text) returns a value
IsJson(text) ==
    /\ JsonValueEnd(text, SkipWs(text, 1)) # 0
    /\ SkipWs(text, JsonValueEnd(text, SkipWs(text, 1))) > Len(text)

-----------------------------------------------------------------------------
(* class ToolCallProcessingState *)

ParserStates == {"EXPECT_ROOT", "EXPECT_VALUE", "EXPECT_KEY", "EXPECT_COLON", "EXPECT_COMMA_OR_CLOSING"}

NewToolCallProcessingState ==
    [ functionNameOutputted |-> FALSE,
      functionClosed |-> FALSE,
      arguments |-> <<>>,
      cursor |-> 0,
      parserState |-> "EXPECT_ROOT",
      inString |-> FALSE,
      isEscaped |-> FALSE,
      isStreamingStringValue |-> FALSE,
      bracketStack |-> <<>>,
      xmlTagStack |-> <<>>,
      currentString |-> <<>>,
      primitiveBuffer |-> <<>>,
      justOpenedArray |-> FALSE ]

\* stack[stack.length - 1]: "" stands for undefined
Parent(bracketStack) == IF bracketStack = <<>> THEN "" ELSE bracketStack[Len(bracketStack)]

\* xmlTagStack[xmlTagStack.length - 1]: <<>> stands for undefined (falsy, as the empty tag is)
TopTag(xmlTagStack) == IF xmlTagStack = <<>> THEN <<>> ELSE xmlTagStack[Len(xmlTagStack)]

\* stack.pop(): the stack that is left
Pop(stack) == IF stack = <<>> THEN <<>> ELSE SubSeq(stack, 1, Len(stack) - 1)

\* bracketStack.filter((b) => b === "{").length
CountObjects(bracketStack) == Cardinality({k \in 1..Len(bracketStack) : bracketStack[k] = "{"})

xmlLevel_AllBrackets(bracketStack) == Max0(Len(bracketStack) - 1)

\* Math.max(0, bracketStack.filter((b) => b === "{").length - 1)
xmlLevel(bracketStack) == Max0(CountObjects(bracketStack) - 1)

getIndent(level) == IF level >= 0 THEN [k \in 1..level |-> "\t"] ELSE <<>>

onOpenTag(tag) == <<"<">> \o tag \o <<">">>

onCloseTag(tag) == <<"<", "/">> \o tag \o <<">", "\n">>

getFullEscapeSequence_NoWait(str, pos) ==
    IF pos < 0 \/ pos >= Len(str) \/ str[pos + 1] # "\\" THEN <<>>
    ELSE IF pos + 1 < Len(str) /\ str[pos + 2] = "u"
    THEN IF pos + 5 >= Len(str) THEN <<>>
         ELSE LET hex == SubSeq(str, pos + 3, pos + 6)
              IN IF IsHex4(hex) THEN <<"\\", "u">> \o hex ELSE <<>>
    ELSE SubSeq(str, pos + 1, IF pos + 2 <= Len(str) THEN pos + 2 ELSE Len(str))

\* the complete escape sequence that starts at pos, or <<>> for null
getFullEscapeSequence(str, pos) ==
    IF pos < 0 \/ pos >= Len(str) \/ str[pos + 1] # "\\" THEN <<>>
    ELSE IF pos + 1 >= Len(str) THEN <<>>
    ELSE IF str[pos + 2] = "u"
    THEN IF pos + 5 >= Len(str) THEN <<>>
         ELSE LET hex == SubSeq(str, pos + 3, pos + 6)
              IN IF IsHex4(hex) THEN <<"\\", "u">> \o hex ELSE <<>>
    ELSE SubSeq(str, pos + 1, pos + 2)

\* an error that no catch block has caught, in the place of the text the
\* statement that raised it would have appended
Thrown == "SyntaxError"

Raises(xml) == \E k \in 1..Len(xml) : xml[k] = Thrown

UnescapeOrRaw_Uncaught(esc) ==
    LET d == IF Len(esc) >= 2 THEN JsonParseEscape(esc) ELSE [ok |-> FALSE, val |-> <<>>]
    IN IF d.ok THEN d.val ELSE <<Thrown>>

\* try { xml += JSON.parse('"' + escapeSequence + '"') } catch { xml += escapeSequence }
UnescapeOrRaw(esc) ==
    LET d == IF Len(esc) >= 2 THEN JsonParseEscape(esc) ELSE [ok |-> FALSE, val |-> <<>>]
    IN IF d.ok THEN d.val ELSE esc

\* try { finalString = JSON.parse('"' + currentString + '"') } catch { finalString = currentString }
ParseKeyOrRaw(currentString) ==
    LET d == JsonParseStringBody(currentString, 1, <<>>)
    IN IF d.ok THEN d.val ELSE currentString

\* the characters that are accumulated into primitiveBuffer
IsPrimitiveChar(c) == c \in Digits \cup {"-", "."} \cup LowerLetters \cup UpperLetters

AllDigits(s) == Len(s) > 0 /\ \A k \in 1..Len(s) : s[k] \in Digits

\* /^-?\d+(\.\d+)?$/
IsNumberLiteral(v) ==
    LET u == IF Len(v) > 0 /\ v[1] = "-" THEN Tail(v) ELSE v
        dots == {k \in 1..Len(u) : u[k] = "."}
    IN \/ AllDigits(u)
       \/ \E k \in dots : AllDigits(SubSeq(u, 1, k - 1)) /\ AllDigits(SubSeq(u, k + 1, Len(u)))

IsValidPrimitive(v) ==
    \/ v = <<"t", "r", "u", "e">>
    \/ v = <<"f", "a", "l", "s", "e">>
    \/ v = <<"n", "u", "l", "l">>
    \/ IsNumberLiteral(v)

-----------------------------------------------------------------------------
(* processArguments: one iteration of its while loop, by the branch taken.  *)
(* Each returns [state, xml, ret]: the state after the iteration, the XML   *)
(* appended to xml, and whether the iteration returned from the function.   *)

Continue(s, x) == [state |-> s, xml |-> x, ret |-> FALSE]

StreamingStringValue_EmitIncomplete(s, char) ==
    IF char = "\\"
    THEN LET escapeSequence == getFullEscapeSequence(s.arguments, s.cursor) IN
         IF escapeSequence # <<>>
         THEN Continue([s EXCEPT !.cursor = @ + Len(escapeSequence)], UnescapeOrRaw(escapeSequence))
         ELSE [state |-> s, xml |-> <<char>>, ret |-> TRUE]
    ELSE IF char = "\""
    THEN LET parent == Parent(s.bracketStack)
             tag == TopTag(s.xmlTagStack)
         IN Continue([s EXCEPT !.inString = FALSE,
                               !.isStreamingStringValue = FALSE,
                               !.xmlTagStack = IF parent = "{" THEN Pop(@) ELSE @,
                               !.parserState = "EXPECT_COMMA_OR_CLOSING",
                               !.cursor = @ + 1],
                     IF parent \in {"{", "["} /\ tag # <<>> THEN onCloseTag(tag) ELSE <<>>)
    ELSE Continue([s EXCEPT !.cursor = @ + 1], <<char>>)

StreamingStringValue_Buffered(s, char) ==
    IF char = "\\"
    THEN LET escapeSequence == getFullEscapeSequence(s.arguments, s.cursor) IN
         IF escapeSequence # <<>>
         THEN Continue([s EXCEPT !.cursor = @ + Len(escapeSequence)], s.currentString \o UnescapeOrRaw(escapeSequence))
         ELSE [state |-> s, xml |-> <<>>, ret |-> TRUE]
    ELSE IF char = "\""
    THEN LET parent == Parent(s.bracketStack)
             tag == TopTag(s.xmlTagStack)
         IN Continue([s EXCEPT !.inString = FALSE,
                               !.isStreamingStringValue = FALSE,
                               !.xmlTagStack = IF parent = "{" THEN Pop(@) ELSE @,
                               !.parserState = "EXPECT_COMMA_OR_CLOSING",
                               !.currentString = <<>>,
                               !.cursor = @ + 1],
                     s.currentString \o (IF parent \in {"{", "["} /\ tag # <<>> THEN onCloseTag(tag) ELSE <<>>))
    ELSE Continue([s EXCEPT !.currentString = Append(@, char), !.cursor = @ + 1], <<>>)

StreamingStringValue_SkipIncomplete(s, char) ==
    IF char = "\\"
    THEN LET escapeSequence == getFullEscapeSequence(s.arguments, s.cursor) IN
         IF escapeSequence # <<>>
         THEN Continue([s EXCEPT !.cursor = @ + Len(escapeSequence)], UnescapeOrRaw(escapeSequence))
         ELSE Continue([s EXCEPT !.cursor = @ + 1], <<>>)
    ELSE IF char = "\""
    THEN LET parent == Parent(s.bracketStack)
             tag == TopTag(s.xmlTagStack)
         IN Continue([s EXCEPT !.inString = FALSE,
                               !.isStreamingStringValue = FALSE,
                               !.xmlTagStack = IF parent = "{" THEN Pop(@) ELSE @,
                               !.parserState = "EXPECT_COMMA_OR_CLOSING",
                               !.cursor = @ + 1],
                     IF parent \in {"{", "["} /\ tag # <<>> THEN onCloseTag(tag) ELSE <<>>)
    ELSE Continue([s EXCEPT !.cursor = @ + 1], <<char>>)

\* lines 286-329: inside a string value, streamed character by character
StreamingStringValue(s, char) ==
    IF char = "\\"
    THEN LET escapeSequence == getFullEscapeSequence(s.arguments, s.cursor) IN
         IF escapeSequence # <<>>
         THEN Continue([s EXCEPT !.cursor = @ + Len(escapeSequence)], UnescapeOrRaw(escapeSequence))
         ELSE [state |-> s, xml |-> <<>>, ret |-> TRUE]
    ELSE IF char = "\""
    THEN LET parent == Parent(s.bracketStack)
             tag == TopTag(s.xmlTagStack)
         IN Continue([s EXCEPT !.inString = FALSE,
                               !.isStreamingStringValue = FALSE,
                               !.xmlTagStack = IF parent = "{" THEN Pop(@) ELSE @,
                               !.parserState = "EXPECT_COMMA_OR_CLOSING",
                               !.cursor = @ + 1],
                     IF parent \in {"{", "["} /\ tag # <<>> THEN onCloseTag(tag) ELSE <<>>)
    ELSE Continue([s EXCEPT !.cursor = @ + 1], <<char>>)

BufferingStringKey_Streamed(s, char) ==
    IF char = "\\" /\ ~s.isEscaped
    THEN Continue([s EXCEPT !.currentString = Append(@, "\\"), !.isEscaped = TRUE, !.cursor = @ + 1], <<char>>)
    ELSE IF char = "\"" /\ ~s.isEscaped
    THEN Continue([s EXCEPT !.inString = FALSE,
                            !.xmlTagStack = Append(@, ParseKeyOrRaw(s.currentString)),
                            !.parserState = "EXPECT_COLON",
                            !.currentString = <<>>,
                            !.cursor = @ + 1], <<>>)
    ELSE Continue([s EXCEPT !.currentString = Append(@, char), !.isEscaped = FALSE, !.cursor = @ + 1], <<char>>)

\* lines 331-354: inside a key, buffered until its closing quote
BufferingStringKey(s, char) ==
    IF char = "\\" /\ ~s.isEscaped
    THEN Continue([s EXCEPT !.currentString = Append(@, "\\"), !.isEscaped = TRUE, !.cursor = @ + 1], <<>>)
    ELSE IF char = "\"" /\ ~s.isEscaped
    THEN Continue([s EXCEPT !.inString = FALSE,
                            !.xmlTagStack = Append(@, ParseKeyOrRaw(s.currentString)),
                            !.parserState = "EXPECT_COLON",
                            !.currentString = <<>>,
                            !.cursor = @ + 1], <<>>)
    ELSE Continue([s EXCEPT !.currentString = Append(@, char), !.isEscaped = FALSE, !.cursor = @ + 1], <<>>)

CommitPrimitive_NoProgress(s) ==
    LET value == s.primitiveBuffer
        parent == Parent(s.bracketStack)
        tag == TopTag(s.xmlTagStack)
        x == IF tag = <<>> THEN <<>>
             ELSE IF parent = "["
             THEN getIndent(xmlLevel(s.bracketStack)) \o onOpenTag(tag) \o value \o onCloseTag(tag)
             ELSE value \o onCloseTag(tag)
    IN Continue([s EXCEPT !.xmlTagStack = IF parent = "[" THEN @ ELSE Pop(@)], x)

\* lines 377-400: a delimiter follows a valid primitive; the cursor stays on the delimiter
CommitPrimitive(s) ==
    LET value == s.primitiveBuffer
        parent == Parent(s.bracketStack)
        tag == TopTag(s.xmlTagStack)
        x == IF tag = <<>> THEN <<>>
             ELSE IF parent = "["
             THEN getIndent(xmlLevel(s.bracketStack)) \o onOpenTag(tag) \o value \o onCloseTag(tag)
             ELSE value \o onCloseTag(tag)
    IN Continue([s EXCEPT !.xmlTagStack = IF parent = "[" THEN @ ELSE Pop(@),
                          !.parserState = "EXPECT_COMMA_OR_CLOSING",
                          !.primitiveBuffer = <<>>], x)

\* lines 518-542, the look-ahead: the next non-whitespace character after the colon, "" if none
NextNonWhitespace(args, cursor) ==
    LET later == {i \in (cursor + 1)..(Len(args) - 1) : ~IsWhitespace(args[i + 1])}
    IN IF later = {} THEN ""
       ELSE args[(CHOOSE i \in later : \A j \in later : i <= j) + 1]

\* lines 408-550: the switch on a structural character, and the cursor++ after it
StructuralChar(s, char) ==
    LET ps == s.parserState
        parent == Parent(s.bracketStack)
        tag == TopTag(s.xmlTagStack)
        advance(t, x) == Continue([t EXCEPT !.cursor = @ + 1], x)
    IN
    CASE char = "{" /\ ps \in {"EXPECT_VALUE", "EXPECT_ROOT"} ->
            advance([s EXCEPT !.bracketStack = Append(@, "{"),
                              !.parserState = "EXPECT_KEY",
                              !.justOpenedArray = FALSE],
                    (IF parent = "[" /\ tag # <<>>
                     THEN getIndent(xmlLevel(s.bracketStack)) \o onOpenTag(tag) ELSE <<>>)
                    \o <<"\n">>)
      [] char = "}" /\ ps \in {"EXPECT_KEY", "EXPECT_COMMA_OR_CLOSING"} ->
            LET popped == Pop(s.bracketStack)
                inArray == parent = "{" /\ Parent(popped) = "["
            IN advance([s EXCEPT !.bracketStack = popped,
                                 !.xmlTagStack = IF inArray THEN @ ELSE Pop(@),
                                 !.parserState = "EXPECT_COMMA_OR_CLOSING"],
                       IF tag # <<>> THEN getIndent(xmlLevel(popped)) \o onCloseTag(tag) ELSE <<>>)
      [] char = "[" /\ ps \in {"EXPECT_VALUE", "EXPECT_ROOT"} ->
            advance([s EXCEPT !.bracketStack = Append(@, "["),
                              !.parserState = "EXPECT_VALUE",
                              !.justOpenedArray = TRUE], <<>>)
      [] char = "]" /\ ps \in {"EXPECT_VALUE", "EXPECT_COMMA_OR_CLOSING"} ->
            advance([s EXCEPT !.bracketStack = Pop(@),
                              !.xmlTagStack = Pop(@),
                              !.parserState = "EXPECT_COMMA_OR_CLOSING",
                              !.justOpenedArray = FALSE],
                    IF ps = "EXPECT_VALUE" /\ s.justOpenedArray /\ tag # <<>>
                    THEN getIndent(xmlLevel(s.bracketStack)) \o onOpenTag(tag) \o onCloseTag(tag)
                    ELSE <<>>)
      [] char = "\"" /\ ps = "EXPECT_VALUE" ->
            advance([s EXCEPT !.isStreamingStringValue = TRUE, !.inString = TRUE],
                    IF parent = "[" /\ tag # <<>>
                    THEN getIndent(xmlLevel(s.bracketStack)) \o onOpenTag(tag) ELSE <<>>)
      [] char = "\"" /\ ps = "EXPECT_KEY" ->
            advance([s EXCEPT !.isStreamingStringValue = FALSE, !.inString = TRUE], <<>>)
      [] char = ":" /\ ps = "EXPECT_COLON" ->
            advance([s EXCEPT !.parserState = "EXPECT_VALUE"],
                    IF NextNonWhitespace(s.arguments, s.cursor) # "[" /\ tag # <<>>
                    THEN getIndent(xmlLevel(s.bracketStack)) \o onOpenTag(tag) ELSE <<>>)
      [] char = "," /\ ps = "EXPECT_COMMA_OR_CLOSING" ->
            advance([s EXCEPT !.parserState = IF parent = "{" THEN "EXPECT_KEY" ELSE "EXPECT_VALUE"], <<>>)
      [] OTHER -> advance(s, <<>>)

Iteration_Speculative(s) ==
    LET char == s.arguments[s.cursor + 1] IN
    IF s.inString
    THEN IF s.isStreamingStringValue THEN StreamingStringValue(s, char) ELSE BufferingStringKey(s, char)
    ELSE IF IsWhitespace(char)
    THEN Continue([s EXCEPT !.cursor = @ + 1], <<>>)
    ELSE IF s.parserState = "EXPECT_VALUE" /\ IsPrimitiveChar(char)
    THEN Continue([s EXCEPT !.primitiveBuffer = Append(@, char), !.cursor = @ + 1], <<char>>)
    ELSE IF s.parserState = "EXPECT_VALUE" /\ Len(s.primitiveBuffer) > 0
    THEN IF IsValidPrimitive(s.primitiveBuffer)
         THEN CommitPrimitive(s)
         ELSE StructuralChar([s EXCEPT !.primitiveBuffer = <<>>], char)
    ELSE StructuralChar(s, char)

\* lines 283-550: the body of the while loop, at state.cursor < args.length
Iteration(s) ==
    LET char == s.arguments[s.cursor + 1] IN
    IF s.inString
    THEN IF s.isStreamingStringValue THEN StreamingStringValue(s, char) ELSE BufferingStringKey(s, char)
    ELSE IF IsWhitespace(char)
    THEN Continue([s EXCEPT !.cursor = @ + 1], <<>>)
    ELSE IF s.parserState = "EXPECT_VALUE" /\ IsPrimitiveChar(char)
    THEN Continue([s EXCEPT !.primitiveBuffer = Append(@, char), !.cursor = @ + 1], <<>>)
    ELSE IF s.parserState = "EXPECT_VALUE" /\ Len(s.primitiveBuffer) > 0
    THEN IF IsValidPrimitive(s.primitiveBuffer)
         THEN CommitPrimitive(s)
         ELSE StructuralChar([s EXCEPT !.primitiveBuffer = <<>>], char)
    ELSE StructuralChar(s, char)

\* lines 278-553: the while loop
RECURSIVE processArgumentsLoop(_, _)
processArgumentsLoop(s, xml) ==
    IF s.cursor >= Len(s.arguments) THEN [state |-> s, xml |-> xml]
    ELSE LET r == Iteration(s) IN
         IF r.ret THEN [state |-> r.state, xml |-> xml \o r.xml]
         ELSE processArgumentsLoop(r.state, xml \o r.xml)

processArguments(s) == processArgumentsLoop(s, <<>>)

-----------------------------------------------------------------------------
(* tryBuildTemporaryJson: the text it parses stands for the parsed value    *)

\* the 1-based position of the last non-whitespace character, 0 if none
LastNonWhitespace(str) ==
    LET at == {k \in 1..Len(str) : ~IsWhitespace(str[k])}
    IN IF at = {} THEN 0 ELSE CHOOSE k \in at : \A j \in at : j <= k

\* lines 692-698
findLastNonWhitespaceChar(str) ==
    IF LastNonWhitespace(str) = 0 THEN "" ELSE str[LastNonWhitespace(str)]

\* line 606: str.replace(/,(\s*)$/, "$1")
trimTrailingComma(str) ==
    IF findLastNonWhitespaceChar(str) = ","
    THEN SubSeq(str, 1, LastNonWhitespace(str) - 1) \o SubSeq(str, LastNonWhitespace(str) + 1, Len(str))
    ELSE str

completePrimitiveSuffix_None(pb) == <<>>

\* lines 608-617
completePrimitiveSuffix(pb) ==
    IF pb \in {<<"t">>, <<"t", "r">>, <<"t", "r", "u">>} THEN <<"e">>
    ELSE IF pb \in {<<"f">>, <<"f", "a">>, <<"f", "a", "l">>, <<"f", "a", "l", "s">>} THEN <<"e">>
    ELSE IF pb \in {<<"n">>, <<"n", "u">>, <<"n", "u", "l">>} THEN <<"l">>
    ELSE IF pb \in {<<>>, <<"-">>} THEN <<"0">>
    ELSE IF Len(pb) >= 2 /\ pb[Len(pb)] = "."
            /\ AllDigits(SubSeq(pb, IF pb[1] = "-" THEN 2 ELSE 1, Len(pb) - 1)) THEN <<"0">>
    ELSE <<>>

\* lines 619-628
stripIncompleteUnicodeAtEnd(input) ==
    LET at == {k \in 1..(Len(input) - 1) : input[k] = "\\" /\ input[k + 1] = "u"}
        uniIndex == CHOOSE k \in at : \A j \in at : j <= k
    IN IF at = {} THEN input
       ELSE IF IsHex4(SubSeq(input, uniIndex + 2, Len(input))) THEN input
       ELSE SubSeq(input, 1, uniIndex - 1)

\* lines 630-644: the in-flight string closed, or the partial primitive completed
CompleteToken(state, s) ==
    IF state.inString
    THEN stripIncompleteUnicodeAtEnd(IF Len(s) > 0 /\ s[Len(s)] = "\\" THEN SubSeq(s, 1, Len(s) - 1) ELSE s)
         \o <<"\"">>
    ELSE IF Len(state.primitiveBuffer) > 0 THEN s \o completePrimitiveSuffix(state.primitiveBuffer)
    ELSE s

\* lines 650-659: the closers of the brackets of the stack, from its top down
RECURSIVE CloseBrackets(_, _)
CloseBrackets(s, bracketStack) ==
    IF bracketStack = <<>> THEN s
    ELSE CloseBrackets(trimTrailingComma(s) \o (IF Parent(bracketStack) = "{" THEN <<"}">> ELSE <<"]">>),
                       Pop(bracketStack))

Unavailable == [parsed |-> FALSE, text |-> <<>>]

\* lines 675-687: the final fallback, at most k more rounds
RECURSIVE TrimAndRetry(_, _)
TrimAndRetry(s3, k) ==
    IF k = 0 \/ trimTrailingComma(s3) = s3 THEN Unavailable
    ELSE IF IsJson(trimTrailingComma(s3)) THEN [parsed |-> TRUE, text |-> trimTrailingComma(s3)]
    ELSE TrimAndRetry(trimTrailingComma(s3), k - 1)

\* lines 665-674: the second attempt, and the final fallback when it fails too
RetryWithNull(s, s2) ==
    IF IsJson(trimTrailingComma(s2)) THEN [parsed |-> TRUE, text |-> trimTrailingComma(s2)]
    ELSE TrimAndRetry(s, 3)

\* lines 661-689: s is the repaired text
ParseRepaired(state, s) ==
    IF IsJson(s) THEN [parsed |-> TRUE, text |-> s]
    ELSE RetryWithNull(s,
                IF findLastNonWhitespaceChar(s) = ":" \/ state.parserState = "EXPECT_VALUE"
                THEN s \o <<"n", "u", "l", "l">> ELSE s)

\* lines 599-690: the text that parsed, or Unavailable for null
tryBuildTemporaryJson(state, rawArgs) ==
    IF LastNonWhitespace(rawArgs) = 0 THEN Unavailable
    ELSE ParseRepaired(state, CloseBrackets(trimTrailingComma(CompleteToken(state, rawArgs)), state.bracketStack))

\* JSON.parse(text) === null
ParsesToNull(text) ==
    SubSeq(text, SkipWs(text, 1), LastNonWhitespace(text)) = <<"n", "u", "l", "l">>

-----------------------------------------------------------------------------
(* The tool registry (ToolRegistry.isToolSupported): the names it holds     *)

RegisteredTools ==
    { <<"read_", "file">>, <<"codebase_search">>, <<"generate_image">>,
      <<"run_slash_command">>, <<"update_todo_list">> }

isToolSupported(toolName) == toolName \in RegisteredTools

\* toolCall.function.name && toolRegistry.isToolSupported(toolCall.function.name)
IsValidToolName(name) == name # <<>> /\ isToolSupported(name)

-----------------------------------------------------------------------------
(* processChunkOpenAIFormat *)

\* a delta {index, id?, function?: {name?, arguments?}}; "" and <<>> stand for absent or empty
Delta(index, id, name, arguments) ==
    [index |-> index, id |-> id, name |-> name, arguments |-> arguments]

\* the index of a delta that has none (delta.index is undefined)
NoIndex == -1

\* line 109: index = delta.index || 0
IndexOf(delta) == IF delta.index = NoIndex THEN 0 ELSE delta.index

OpenFunctionTag(name) == <<"<">> \o name \o <<">">>

CloseFunctionTag(name) == <<"<", "/">> \o name \o <<">", "\n", "\n">>

\* lines 154-158: the call is complete and its function tag is to be closed
ShouldClose(isValidToolName, state) ==
    /\ isValidToolName
    /\ ~state.functionClosed
    /\ state.bracketStack = <<>>
    /\ state.cursor > 0
    /\ OnlyWhitespaceFrom(state.arguments, state.cursor)

Accumulate_Replace(calls, delta) ==
    LET call0 == IF IndexOf(delta) \in DOMAIN calls THEN calls[IndexOf(delta)]
                 ELSE [id |-> delta.id, name |-> <<>>, arguments |-> <<>>]
    IN [call0 EXCEPT !.name = @ \o delta.name,
                     !.arguments = IF delta.arguments # <<>> THEN delta.arguments ELSE @]

\* lines 115-133: the accumulated call of the delta's index, with the delta's
\* name and arguments appended
Accumulate(calls, delta) ==
    LET call0 == IF IndexOf(delta) \in DOMAIN calls THEN calls[IndexOf(delta)]
                 ELSE [id |-> delta.id, name |-> <<>>, arguments |-> <<>>]
    IN [call0 EXCEPT !.name = @ \o delta.name, !.arguments = @ \o delta.arguments]

StateOf_Shared(calls, states, index) ==
    IF 0 \in DOMAIN calls THEN states[0]
    ELSE IF index \in DOMAIN calls THEN states[index] ELSE NewToolCallProcessingState

\* lines 121, 125: this.processingStates.get(index)
StateOf(calls, states, index) ==
    IF index \in DOMAIN calls THEN states[index] ELSE NewToolCallProcessingState

CloseCheck_Unlatched(toolCall, state, xmlOutput) ==
    LET closes == ShouldClose(IsValidToolName(toolCall.name), state)
    IN [ toolCall |-> toolCall,
         state |-> [state EXCEPT !.functionClosed = closes],
         xml |-> xmlOutput \o (IF closes THEN CloseFunctionTag(toolCall.name) ELSE <<>>) ]

\* lines 153-162: the close check, after xmlOutput has the delta's XML so far
CloseCheck(toolCall, state, xmlOutput) ==
    LET closes == ShouldClose(IsValidToolName(toolCall.name), state)
    IN [ toolCall |-> toolCall,
         state |-> [state EXCEPT !.functionClosed = @ \/ closes],
         xml |-> xmlOutput \o (IF closes THEN CloseFunctionTag(toolCall.name) ELSE <<>>) ]

\* lines 145 and 150: xmlOutput += this.processArguments(state, ...), r its result
AppendProcessed(toolCall, r, xmlOutput) == CloseCheck(toolCall, r.state, xmlOutput \o r.xml)

ProcessToolCall_Eager(toolCall, state) ==
    LET isValidToolName == IsValidToolName(toolCall.name)
        opens == isValidToolName /\ ~state.functionNameOutputted
        feeds == Len(toolCall.arguments) > Len(state.arguments)
        xmlOutput == IF opens THEN OpenFunctionTag(toolCall.name) ELSE <<>>
        state1 == [state EXCEPT !.functionNameOutputted = @ \/ opens,
                                !.arguments = IF feeds THEN toolCall.arguments ELSE @]
    IN IF feeds THEN AppendProcessed(toolCall, processArguments(state1), xmlOutput)
       ELSE CloseCheck(toolCall, state1, xmlOutput)

ProcessToolCall_NoLatch(toolCall, state) ==
    LET isValidToolName == IsValidToolName(toolCall.name)
        opens == isValidToolName /\ ~state.functionNameOutputted
        feeds == IF opens THEN Len(toolCall.arguments) > 0
                 ELSE state.functionNameOutputted /\ Len(toolCall.arguments) > Len(state.arguments)
        xmlOutput == IF opens THEN OpenFunctionTag(toolCall.name) ELSE <<>>
        state1 == [state EXCEPT !.arguments = IF feeds THEN toolCall.arguments ELSE @]
    IN IF feeds THEN AppendProcessed(toolCall, processArguments(state1), xmlOutput)
       ELSE CloseCheck(toolCall, state1, xmlOutput)

\* lines 135-162: the function tag, the arguments and the close check
ProcessToolCall(toolCall, state) ==
    LET isValidToolName == IsValidToolName(toolCall.name)
        opens == isValidToolName /\ ~state.functionNameOutputted
        feeds == IF opens THEN Len(toolCall.arguments) > 0
                 ELSE state.functionNameOutputted /\ Len(toolCall.arguments) > Len(state.arguments)
        xmlOutput == IF opens THEN OpenFunctionTag(toolCall.name) ELSE <<>>
        state1 == [state EXCEPT !.functionNameOutputted = @ \/ opens,
                                !.arguments = IF feeds THEN toolCall.arguments ELSE @]
    IN IF feeds THEN AppendProcessed(toolCall, processArguments(state1), xmlOutput)
       ELSE CloseCheck(toolCall, state1, xmlOutput)

\* lines 112-162: the body of the loop over the deltas of a chunk, for one delta:
\* [toolCall, state, xml], the call and the state of delta.index and the XML added
ProcessDelta(calls, states, delta) ==
    ProcessToolCall(Accumulate(calls, delta), StateOf(calls, states, IndexOf(delta)))

FragOf(frags, i) == IF i \in DOMAIN frags THEN frags[i] ELSE <<>>

\* p = [calls, states, xmlOutput, frags] with the result d of ProcessDelta stored;
\* frags is the XML each index contributed to xmlOutput
StoreDelta(p, index, d) ==
    [ calls |-> (index :> d.toolCall) @@ p.calls,
      states |-> (index :> d.state) @@ p.states,
      xmlOutput |-> p.xmlOutput \o d.xml,
      frags |-> (index :> (FragOf(p.frags, index) \o d.xml)) @@ p.frags ]

\* lines 107-163: for (const delta of chunk)
RECURSIVE ProcessDeltas(_, _)
ProcessDeltas(p, chunk) ==
    IF chunk = <<>> THEN p
    ELSE ProcessDeltas(StoreDelta(p, IndexOf(Head(chunk)), ProcessDelta(p.calls, p.states, Head(chunk))),
                       Tail(chunk))

\* a result without anthropicContent
NoContent == [present |-> FALSE, id |-> "", name |-> <<>>, input |-> <<>>]

\* lines 177-189: the temporary anthropicContent, tmpInput the result of tryBuildTemporaryJson
TemporaryContent(toolCall, tmpInput) ==
    IF tmpInput.parsed /\ ~ParsesToNull(tmpInput.text)
    THEN [present |-> TRUE, id |-> toolCall.id, name |-> toolCall.name, input |-> tmpInput.text]
    ELSE NoContent

FinalContent_Uncaught(toolCall) ==
    [present |-> TRUE, id |-> toolCall.id, name |-> toolCall.name,
     input |-> IF IsJson(toolCall.arguments) THEN toolCall.arguments ELSE <<Thrown>>]

\* lines 191-204: the anthropicContent of a closed call; input is "" when the arguments do not parse
FinalContent(toolCall) ==
    [present |-> TRUE, id |-> toolCall.id, name |-> toolCall.name,
     input |-> IF IsJson(toolCall.arguments) THEN toolCall.arguments ELSE <<>>]

AnthropicContent_RepairAlways(toolCall, currentState) ==
    IF ~IsValidToolName(toolCall.name) THEN NoContent
    ELSE TemporaryContent(toolCall, tryBuildTemporaryJson(currentState, toolCall.arguments))

\* lines 177-204
AnthropicContent(toolCall, currentState) ==
    IF ~IsValidToolName(toolCall.name) THEN NoContent
    ELSE IF currentState.functionClosed THEN FinalContent(toolCall)
    ELSE TemporaryContent(toolCall, tryBuildTemporaryJson(currentState, toolCall.arguments))

ToolCallParam_InPlace(p, index) ==
    LET known == index \in DOMAIN p.calls
        toolName == IF known THEN p.calls[index].name ELSE <<>>
        repaired == known /\ IsValidToolName(toolName) /\ ~p.states[index].functionClosed
    IN [ calls |-> p.calls,
         states |-> IF repaired THEN [p.states EXCEPT ![index].bracketStack = <<>>] ELSE p.states,
         frags |-> p.frags,
         index |-> index,
         toolName |-> IF IsValidToolName(toolName) THEN toolName ELSE <<>>,
         toolUserId |-> IF known THEN p.calls[index].id ELSE "",
         chunkContent |-> p.xmlOutput,
         anthropicContent |-> IF known THEN AnthropicContent(p.calls[index], p.states[index])
                              ELSE NoContent ]

\* lines 164-205: the ToolCallParam, for the index of the last delta
ToolCallParam(p, index) ==
    LET known == index \in DOMAIN p.calls
        toolName == IF known THEN p.calls[index].name ELSE <<>>
    IN [ calls |-> p.calls,
         states |-> p.states,
         frags |-> p.frags,
         index |-> index,
         toolName |-> IF IsValidToolName(toolName) THEN toolName ELSE <<>>,
         toolUserId |-> IF known THEN p.calls[index].id ELSE "",
         chunkContent |-> p.xmlOutput,
         anthropicContent |-> IF known THEN AnthropicContent(p.calls[index], p.states[index])
                              ELSE NoContent ]

processChunkOpenAIFormat_FirstIndex(calls, states, chunk) ==
    ToolCallParam(ProcessDeltas([calls |-> calls, states |-> states, xmlOutput |-> <<>>, frags |-> <<>>],
                                chunk),
                  IF chunk = <<>> THEN 0 ELSE IndexOf(chunk[1]))

\* lines 106-206: the calls and states after the chunk, and the ToolCallParam returned
processChunkOpenAIFormat(calls, states, chunk) ==
    ToolCallParam(ProcessDeltas([calls |-> calls, states |-> states, xmlOutput |-> <<>>, frags |-> <<>>],
                                chunk),
                  IF chunk = <<>> THEN 0 ELSE IndexOf(chunk[Len(chunk)]))

-----------------------------------------------------------------------------
(* finalize *)

\* lines 239-243: the closing tags of the whole xmlTagStack, top first,
\* all at the level of the bracket stack, which finalize leaves as it is
RECURSIVE CloseRemainingTags(_, _)
CloseRemainingTags(xmlTagStack, bracketStack) ==
    IF xmlTagStack = <<>> THEN <<>>
    ELSE getIndent(xmlLevel(bracketStack)) \o onCloseTag(TopTag(xmlTagStack))
         \o CloseRemainingTags(Pop(xmlTagStack), bracketStack)

\* lines 238-247: r is the state and the XML after the flush of lines 232-236
CloseAll(toolCall, r) ==
    [ state |-> [r.state EXCEPT !.xmlTagStack = <<>>],
      xml |-> r.xml
              \o CloseRemainingTags(r.state.xmlTagStack, r.state.bracketStack)
              \o (IF r.state.functionNameOutputted
                  THEN <<"<", "/">> \o toolCall.name \o <<">", "\n">> ELSE <<>>) ]

\* lines 217-247: the body of finalize's loop, for one index that has a call and a state
FinalizeCall(toolCall, state) ==
    IF state.functionClosed \/ ~IsValidToolName(toolCall.name)
    THEN [state |-> state, xml |-> <<>>]
    ELSE IF Len(toolCall.arguments) > Len(state.arguments)
    THEN CloseAll(toolCall, processArguments([state EXCEPT !.arguments = toolCall.arguments]))
    ELSE CloseAll(toolCall, [state |-> state, xml |-> <<>>])

\* accumulatedToolCalls.length
ArrayLength(calls) ==
    IF DOMAIN calls = {} THEN 0 ELSE 1 + CHOOSE m \in DOMAIN calls : \A j \in DOMAIN calls : j <= m

\* p = [states, finalXml, frags] with the result f of FinalizeCall stored
StoreFinal(p, i, f) ==
    [ states |-> (i :> f.state) @@ p.states,
      finalXml |-> p.finalXml \o f.xml,
      frags |-> (i :> f.xml) @@ p.frags ]

\* lines 216-248: for (let i = 0; i < this.accumulatedToolCalls.length; i++)
RECURSIVE FinalizeFrom(_, _, _)
FinalizeFrom(i, calls, p) ==
    IF i >= ArrayLength(calls) THEN p
    ELSE IF i \notin DOMAIN calls \/ i \notin DOMAIN p.states
    THEN FinalizeFrom(i + 1, calls, p)
    ELSE FinalizeFrom(i + 1, calls, StoreFinal(p, i, FinalizeCall(calls[i], p.states[i])))

\* lines 212-250
finalize(calls, states) ==
    FinalizeFrom(0, calls, [states |-> states, finalXml |-> <<>>, frags |-> <<>>])

-----------------------------------------------------------------------------
(* The environment: what the provider sends *)

\* the indices of the tool calls of one response
Indices == {0, 1}

\* the longest arguments fragment of one delta, in characters
\* (a delta can also carry all the rest of the document)
MaxChunk == 2

\* the most name fragments a provider sends for one call
MaxName == 3

\* the most finalize() calls between two resets
MaxFinalize == 2

\* complete, valid arguments documents
Docs ==
    { Chars("{\"a\":1,\"b\":null}"),
      Chars("{\"a\":\"\\u0041\\n\"}"),
      Chars("{\"a\":[1,2]}"),
      Chars("{\"f\":[{\"p\":\"a\"},{\"p\":\"b\"}]}"),
      Chars("{\"l\":{\"r\":[1,2]}}"),
      Chars("{\"e\":[]}"),
      Chars("{}"),
      Chars(" {\"a\": [\"x\"] }"),
      Chars("{\"a\":[1e5,2]}"),
      Chars("{\"a\":[[1]]}"),
      Chars("{\"n\":252 }"),
      Chars("{\"\\u0041\":1}"),
      Chars("{\"s\":\"hi\\nyo\"}"),
      Chars("{\"t\":true,\"f\":false}"),
      Chars("{\"m\":-1.5}"),
      Chars("{\"x\":1e5}"),
      Chars("{\"o\":{\"a\":[[1]]}}") }

\* arguments text that is not valid JSON
BadDocs ==
    { Chars("{\"a\":\"\\q\"}"),
      Chars("{\"\\q\":1}"),
      Chars("{\"a\":\"\\u00zz\"}"),
      Chars("]{x"),
      Chars("{},{") }

\* the responses: the arguments document of each call, by index.  A response
\* has one call at index 0, or one call at index 1, or two calls.
Responses ==
    {(0 :> d) : d \in Docs \cup BadDocs}
    \cup {(1 :> Chars("{\"a\":[1,2]}"))}
    \cup {(0 :> Chars("{\"a\":[1,2]}")) @@ (1 :> Chars("{\"b\":2}"))}

\* the responses that the caller keeps feeding after a finalize()
ResumedResponses == {(0 :> d) : d \in BadDocs}

\* the responses of a provider whose deltas can lack the index of the call
NoIndexResponses == {(0 :> Chars("{}"))}

\* the responses of a provider that sends the id of a call after its first delta
LateIdResponses == {(1 :> Chars("{\"a\":[1,2]}"))}

ReadFile == <<"read_", "file">>

\* the name fragments a provider sends for a call, in order: the registered name
\* in two fragments, and then the whole name again (a provider that repeats the
\* name in later deltas)
NameScript == [k \in 1..MaxName |-> IF k = 1 THEN <<"read_">> ELSE IF k = 2 THEN <<"file">> ELSE ReadFile]

NameOf(i) == IF i \in DOMAIN accumulatedToolCalls THEN accumulatedToolCalls[i].name ELSE <<>>

ArgumentsOf(i) == IF i \in DOMAIN accumulatedToolCalls THEN accumulatedToolCalls[i].arguments ELSE <<>>

\* the number of characters of doc[i] delivered so far
Fed(i) == Len(ArgumentsOf(i))

Rest(i) == Len(doc[i]) - Fed(i)

\* the number of fragments of the script that make the name of index i
NameFragmentsSent(i) == IF Len(NameOf(i)) <= 2 THEN Len(NameOf(i)) ELSE 1 + Len(NameOf(i)) \div 2

\* the name fragment of the next delta for index i: none, the next fragment of
\* the script, or, in the first delta, the whole registered name or an unknown name
NextNames(i) ==
    {<<>>}
    \cup (IF NameOf(i) # <<"x">> /\ NameFragmentsSent(i) < MaxName
          THEN {NameScript[NameFragmentsSent(i) + 1]} ELSE {})
    \cup (IF i \notin DOMAIN accumulatedToolCalls THEN {ReadFile, <<"x">>} ELSE {})

\* the size of the arguments fragment of the next delta for index i with name
\* fragment n: arguments stream in small fragments once the registered name is
\* complete, and arrive whole or not at all before that
NextSizes(i, n) ==
    IF Len(NameOf(i) \o n) >= 2
    THEN {k \in (0..MaxChunk) \cup {Rest(i)} : k <= Rest(i)}
    ELSE {0, Rest(i)}

IdOf(i) == IF i \in DOMAIN accumulatedToolCalls THEN accumulatedToolCalls[i].id ELSE ""

\* the id the provider gives to the call of index i
CallId(i) == IF i = 0 THEN "call_0" ELSE "call_1"

\* the id of the next delta for index i: the id of the call in its first delta
\* and none in the later ones, or, for a response of LateIdResponses, none in
\* the first delta and the id of the call in a later one
NextIds(i) ==
    IF i \notin DOMAIN accumulatedToolCalls
    THEN {CallId(i)} \cup (IF doc \in LateIdResponses THEN {""} ELSE {})
    ELSE {""} \cup (IF doc \in LateIdResponses /\ IdOf(i) = "" THEN {CallId(i)} ELSE {})

\* the index of the next delta for index i: i, or none for a response of
\* NoIndexResponses
NextIndices(i) == {i} \cup (IF doc \in NoIndexResponses THEN {NoIndex} ELSE {})

NextDeltas(i) ==
    { Delta(q[4], q[3], q[1], SubSeq(doc[i], Fed(i) + 1, Fed(i) + q[2])) :
        q \in {q \in NextNames(i) \X (0..(MaxChunk + Rest(i))) \X NextIds(i) \X NextIndices(i) :
                  q[2] \in NextSizes(i, q[1])} }

-----------------------------------------------------------------------------
(* getToolAvailability (src/core/prompts/tools/tool-availability.ts)        *)

\* ToolRegistry.getSupportedTools: toolNames.filter((toolName) => this.tools.has(toolName))
getSupportedTools(toolNames) == SelectSeq(toolNames, isToolSupported)

\* tools.delete(tool) when the condition holds, on the tools in insertion order
DeleteIf(tools, condition, tool) ==
    IF condition THEN SelectSeq(tools, LAMBDA t : t # tool) ELSE tools

\* lines 64-85: the conditional exclusions; "undefined" is a setting that is absent
Exclusions(tools, args) ==
    DeleteIf(DeleteIf(DeleteIf(DeleteIf(tools,
        ~args.codeIndexReady, <<"codebase_search">>),
        args.todoListEnabled = "false", <<"update_todo_list">>),
        ~args.imageGeneration, <<"generate_image">>),
        ~args.runSlashCommand, <<"run_slash_command">>)

\* lines 87-105: the three lists, from the tools of the set in insertion order
Partitioned(availableTools, toolCallEnabled) ==
    LET toolCallTools == IF toolCallEnabled = "true" THEN getSupportedTools(availableTools) ELSE <<>>
    IN [ availableTools |-> availableTools,
         xmlTools |-> IF toolCallEnabled = "true"
                      THEN SelectSeq(availableTools, LAMBDA tool : \A k \in 1..Len(toolCallTools) : toolCallTools[k] # tool)
                      ELSE availableTools,
         toolCallTools |-> toolCallTools ]

getToolAvailability_Unfiltered(args) ==
    [Partitioned(Exclusions(args.tools, args), args.toolCallEnabled)
        EXCEPT !.xmlTools = Exclusions(args.tools, args)]

\* lines 33-106; args.tools is the set of lines 37-62, in insertion order
getToolAvailability(args) == Partitioned(Exclusions(args.tools, args), args.toolCallEnabled)

\* the tool names of the model: the registered ones and one that is not
ToolUniverse ==
    << <<"read_", "file">>, <<"codebase_search">>, <<"update_todo_list">>,
       <<"generate_image">>, <<"run_slash_command">>, <<"x">> >>

\* the arguments of getToolAvailability: the tools of the mode and the always
\* available ones, and the settings and experiments that the function reads
ToolAvailabilityArgs ==
    [ tools : {SelectSeq(ToolUniverse, LAMBDA t : t \in S) : S \in SUBSET {ToolUniverse[k] : k \in 1..Len(ToolUniverse)}},
      codeIndexReady : BOOLEAN,
      todoListEnabled : {"true", "false", "undefined"},
      imageGeneration : BOOLEAN,
      runSlashCommand : BOOLEAN,
      toolCallEnabled : {"true", "false", "undefined"} ]

NoToolArgs ==
    [ tools |-> <<>>, codeIndexReady |-> FALSE, todoListEnabled |-> "undefined",
      imageGeneration |-> FALSE, runSlashCommand |-> FALSE, toolCallEnabled |-> "undefined" ]

NoAvailability ==
    [returned |-> FALSE, result |-> [availableTools |-> <<>>, xmlTools |-> <<>>, toolCallTools |-> <<>>]]

-----------------------------------------------------------------------------
(* The specification *)

NoCall == [op |-> "new", index |-> 0, toolName |-> <<>>, toolUserId |-> "", anthropicContent |-> NoContent]

Init ==
    /\ accumulatedToolCalls = <<>>
    /\ processingStates = <<>>
    /\ doc \in Responses
    /\ out = [i \in Indices |-> <<>>]
    /\ last = NoCall
    /\ finalizeCalls = 0
    /\ threw = FALSE
    /\ toolArgs = NoToolArgs
    /\ toolAvailability = NoAvailability

\* the processor after processChunkOpenAIFormat has returned r
Returned(r) ==
    /\ accumulatedToolCalls' = r.calls
    /\ processingStates' = r.states
    /\ out' = [i \in Indices |-> out[i] \o FragOf(r.frags, i)]
    /\ last' = [op |-> "processChunk", index |-> r.index,
                toolName |-> r.toolName, toolUserId |-> r.toolUserId,
                anthropicContent |-> r.anthropicContent]
    /\ threw' = (threw \/ Raises(r.chunkContent))
    /\ UNCHANGED <<doc, finalizeCalls>>
    /\ UNCHANGED availabilityVars

\* processChunk(chunk) / processChunkTool(chunk); the caller feeds the response
\* until it finalizes, and feeds a response of ResumedResponses after that too
ProcessChunk(chunk) ==
    /\ finalizeCalls = 0 \/ doc \in ResumedResponses
    /\ Returned(processChunkOpenAIFormat(accumulatedToolCalls, processingStates, chunk))

\* a chunk of one delta
ProcessChunkOne == \E i \in DOMAIN doc : \E d \in NextDeltas(i) : ProcessChunk(<<d>>)

\* the first chunk of a response, with a delta for each of its two calls
ProcessChunkTwo ==
    /\ DOMAIN accumulatedToolCalls = {}
    /\ \E i \in DOMAIN doc : \E j \in DOMAIN doc \ {i} :
         \E d \in NextDeltas(i) : \E e \in NextDeltas(j) : ProcessChunk(<<d, e>>)

\* a chunk without deltas
ProcessChunkNone == ProcessChunk(<<>>)

\* the processor after finalize has returned f
Finalized(f) ==
    /\ processingStates' = f.states
    /\ out' = [i \in Indices |-> out[i] \o FragOf(f.frags, i)]
    /\ last' = [NoCall EXCEPT !.op = "finalize"]
    /\ finalizeCalls' = finalizeCalls + 1
    /\ threw' = (threw \/ Raises(f.finalXml))
    /\ UNCHANGED <<accumulatedToolCalls, doc>>
    /\ UNCHANGED availabilityVars

Finalize ==
    /\ finalizeCalls < MaxFinalize
    /\ Finalized(finalize(accumulatedToolCalls, processingStates))

Reset_KeepStates ==
    /\ last.op \in {"processChunk", "finalize"}
    /\ accumulatedToolCalls' = <<>>
    /\ processingStates' = processingStates
    /\ out' = [i \in Indices |-> <<>>]
    /\ last' = [NoCall EXCEPT !.op = "reset"]
    /\ finalizeCalls' = 0
    /\ UNCHANGED <<doc, threw>>
    /\ UNCHANGED availabilityVars

\* lines 255-258; the caller resets a processor it has used
Reset ==
    /\ last.op \in {"processChunk", "finalize"}
    /\ accumulatedToolCalls' = <<>>
    /\ processingStates' = <<>>
    /\ out' = [i \in Indices |-> <<>>]
    /\ last' = [NoCall EXCEPT !.op = "reset"]
    /\ finalizeCalls' = 0
    /\ UNCHANGED <<doc, threw>>
    /\ UNCHANGED availabilityVars

Next == ProcessChunkOne \/ ProcessChunkTwo \/ ProcessChunkNone \/ Finalize \/ Reset

Spec == Init /\ [][Next]_vars

-----------------------------------------------------------------------------
(* The specification of getToolAvailability: a call with any arguments      *)

InitAvailability ==
    /\ accumulatedToolCalls = <<>>
    /\ processingStates = <<>>
    /\ doc = (0 :> Chars("{}"))
    /\ out = [i \in Indices |-> <<>>]
    /\ last = NoCall
    /\ finalizeCalls = 0
    /\ threw = FALSE
    /\ toolArgs \in ToolAvailabilityArgs
    /\ toolAvailability = NoAvailability

GetToolAvailability ==
    /\ ~toolAvailability.returned
    /\ toolAvailability' = [returned |-> TRUE, result |-> getToolAvailability(toolArgs)]
    /\ UNCHANGED <<accumulatedToolCalls, processingStates, doc, out, last, finalizeCalls, threw, toolArgs>>

NextAvailability == GetToolAvailability

SpecAvailability == InitAvailability /\ [][NextAvailability]_vars

-----------------------------------------------------------------------------
(* The rendering of a whole document: one delta with the registered name    *)
(* and all the arguments, to a new processor, and finalize() after it       *)

\* d is the result of ProcessDelta for the only delta
FinalizedXml(d) == d.xml \o finalize((0 :> d.toolCall), (0 :> d.state)).finalXml

OneShot(document) == FinalizedXml(ProcessDelta(<<>>, <<>>, Delta(0, "call_0", ReadFile, document)))

\* the calls of the response that have a valid document and the registered name
ValidCalls == {i \in DOMAIN doc : doc[i] \in Docs /\ NameOf(i) = ReadFile}

-----------------------------------------------------------------------------
(* Reading the XML that was returned *)

\* the position of the first ">" from p on, 0 if there is none
RECURSIVE TagEnd(_, _)
TagEnd(xml, p) == IF p > Len(xml) THEN 0 ELSE IF xml[p] = ">" THEN p ELSE TagEnd(xml, p + 1)

\* from p on, with the tags of open unclosed: every closing tag closes the most
\* recent unclosed opening tag
RECURSIVE ClosersMatchFrom(_, _, _)
ClosersMatchFrom(xml, p, open) ==
    IF p > Len(xml) THEN TRUE
    ELSE IF xml[p] # "<" \/ TagEnd(xml, p) = 0 THEN ClosersMatchFrom(xml, p + 1, open)
    ELSE IF xml[p + 1] = "/"
    THEN /\ open # <<>>
         /\ open[Len(open)] = SubSeq(xml, p + 2, TagEnd(xml, p) - 1)
         /\ ClosersMatchFrom(xml, TagEnd(xml, p) + 1, Pop(open))
    ELSE ClosersMatchFrom(xml, TagEnd(xml, p) + 1, Append(open, SubSeq(xml, p + 1, TagEnd(xml, p) - 1)))

\* the number of places of xml where pat occurs
Occurrences(xml, pat) ==
    Cardinality({p \in 1..(Len(xml) - Len(pat) + 1) : SubSeq(xml, p, p + Len(pat) - 1) = pat})

\* the number of tab characters xml starts with
LeadingTabs(xml) ==
    CHOOSE n \in 0..Len(xml) : /\ \A k \in 1..n : xml[k] = "\t"
                               /\ n = Len(xml) \/ xml[n + 1] # "\t"

\* xml is tabs and a tag after them: an opening tag, or a closing one
IsIndentedOpen(xml) ==
    /\ LeadingTabs(xml) + 2 <= Len(xml)
    /\ xml[LeadingTabs(xml) + 1] = "<"
    /\ xml[LeadingTabs(xml) + 2] # "/"

IsIndentedClose(xml) ==
    /\ LeadingTabs(xml) + 2 <= Len(xml)
    /\ xml[LeadingTabs(xml) + 1] = "<"
    /\ xml[LeadingTabs(xml) + 2] = "/"

EndsLine(xml) == xml # <<>> /\ xml[Len(xml)] = "\n"

-----------------------------------------------------------------------------
(* Claims *)

\* C1: for a valid complete document and a registered name, whatever the split
\* of the arguments text into deltas, the XML returned so far is a prefix of the
\* one-delta rendering, and once all the text is fed and finalize() has been
\* called it is equal to the one-delta rendering.
C1_ChunkInvariance ==
    \A i \in ValidCalls :
        /\ finalizeCalls = 0 => IsPrefix(out[i], OneShot(doc[i]))
        /\ finalizeCalls = 1 /\ Fed(i) = Len(doc[i]) => out[i] = OneShot(doc[i])

\* C2: for a registered name and a prefix of a valid document, the XML returned
\* by the processChunk calls and by one finalize() after them is balanced: every
\* closing tag closes the most recent unclosed opening tag, and none comes
\* without an opening tag.
C2_ForcedCloseBalanced ==
    \A i \in ValidCalls : finalizeCalls = 1 => ClosersMatchFrom(out[i], 1, <<>>)

\* C3: a finalize() that follows a finalize() with nothing fed in between
\* returns an empty fragment.
C3_FinalizeIdempotent ==
    [][last.op = "finalize" /\ last'.op = "finalize" => out' = out]_vars

\* the result d of ProcessDelta for index i has no XML and changes neither the
\* call nor the state of the index
NoEffect(i, d) ==
    /\ d.xml = <<>>
    /\ d.state = processingStates[i]
    /\ d.toolCall = accumulatedToolCalls[i]

\* C4: in every reachable state, processArguments on the same buffer, and
\* processChunk with a delta of empty name and empty arguments, return an empty
\* fragment and leave every field of the state of the call as it is.
C4_IdempotentResumption ==
    \A i \in DOMAIN processingStates :
        /\ processArguments(processingStates[i]) = [state |-> processingStates[i], xml |-> <<>>]
        /\ NoEffect(i, ProcessDelta(accumulatedToolCalls, processingStates, Delta(i, "", <<>>, <<>>)))

\* a call is stopped at an escape sequence that is not complete yet
C4_Witness ==
    \E i \in DOMAIN processingStates :
        /\ processingStates[i].cursor < Len(processingStates[i].arguments)
        /\ processingStates[i].isStreamingStringValue
        /\ processingStates[i].arguments[processingStates[i].cursor + 1] = "\\"
        /\ out[i] # <<>>

\* the result record of a processChunk call whose index has a name that is not
\* accepted has the empty string for toolName
ToolNameSuppressed ==
    last.op = "processChunk" /\ ~IsValidToolName(NameOf(last.index)) => last.toolName = <<>>

\* C5: while the accumulated name of an index is not accepted by the registry,
\* processChunk and finalize() return no XML for that index, and the toolName of
\* the result record of processChunk is the empty string.
C5_UnknownToolSuppression ==
    [][last'.op \in {"processChunk", "finalize"} =>
          /\ \A i \in Indices : ~IsValidToolName(NameOf(i)') => out'[i] = out[i]
          /\ ToolNameSuppressed']_vars

EscapeDocument == Chars("{\"a\":\"\\u0041\\n\"}")

\* its rendering, with each escape decoded once
EscapeRendering ==
    <<"<", "read_", "file", ">", "\n",
      "<", "a", ">", "A", "\n", "<", "/", "a", ">", "\n",
      "<", "/", "read_", "file", ">", "\n", "\n">>

\* C7: wherever the deltas split the escape sequences of a string value, the
\* XML returned is a prefix of the rendering with each escape decoded once, and
\* is that rendering, the one of a single delta, once the text is all fed.
C7_EscapeAcrossSplit ==
    \A i \in ValidCalls :
        doc[i] = EscapeDocument /\ finalizeCalls = 0 =>
            /\ IsPrefix(out[i], EscapeRendering)
            /\ Fed(i) = Len(doc[i]) => out[i] = EscapeRendering /\ out[i] = OneShot(doc[i])

\* the first escape has been decoded, and the call waits for the rest of the
\* second one, of which the backslash has arrived
C7_Witness ==
    \E i \in ValidCalls :
        /\ doc[i] = EscapeDocument
        /\ processingStates[i].cursor = Len(processingStates[i].arguments) - 1
        /\ processingStates[i].arguments[Len(processingStates[i].arguments)] = "\\"
        /\ Occurrences(out[i], <<"A">>) = 1

\* the documents whose key has an array of n >= 1 objects or scalars for value
ArrayDocuments ==
    { [document |-> Chars("{\"a\":[1,2]}"), key |-> "a", n |-> 2],
      [document |-> Chars("{\"f\":[{\"p\":\"a\"},{\"p\":\"b\"}]}"), key |-> "f", n |-> 2],
      [document |-> Chars(" {\"a\": [\"x\"] }"), key |-> "a", n |-> 1],
      [document |-> Chars("{\"a\":[1e5,2]}"), key |-> "a", n |-> 2] }

\* C8: the rendering of a document delivered in one delta, in which a key has an
\* array of n >= 1 objects or scalars, has n <key>...</key> blocks, one for each
\* element.
C8_ArrayRepetition ==
    \A a \in ArrayDocuments :
        (\E i \in DOMAIN doc : doc[i] = a.document) =>
            /\ Occurrences(OneShot(a.document), <<"<", a.key, ">">>) = a.n
            /\ Occurrences(OneShot(a.document), <<"<", "/", a.key, ">">>) = a.n

\* the calls that wait for more of a valid document, between two iterations
StreamingCalls ==
    {i \in ValidCalls : /\ finalizeCalls = 0
                        /\ processingStates[i].functionNameOutputted
                        /\ processingStates[i].cursor = Len(processingStates[i].arguments)
                        /\ processingStates[i].cursor < Len(doc[i])}

\* the iteration that processArguments performs next on the document of call i
NextIteration(i) == Iteration([processingStates[i] EXCEPT !.arguments = doc[i]])

\* the XML r.xml of the next iteration of call i has the tabs of the claim: d is
\* the number of objects open before an opening tag, and after a closing one
TabsAsOpenObjects(i, r) ==
    /\ EndsLine(out[i]) /\ IsIndentedOpen(r.xml)
          => LeadingTabs(r.xml) = Max0(CountObjects(processingStates[i].bracketStack) - 1)
    /\ doc[i][processingStates[i].cursor + 1] = "}" /\ IsIndentedClose(r.xml)
          => LeadingTabs(r.xml) = Max0(CountObjects(r.state.bracketStack) - 1)

NestedDocument == Chars("{\"l\":{\"r\":[1,2]}}")

NestedRendering ==
    <<"<", "read_", "file", ">", "\n",
      "<", "l", ">", "\n",
      "\t", "<", "r", ">", "1", "<", "/", "r", ">", "\n",
      "\t", "<", "r", ">", "2", "<", "/", "r", ">", "\n",
      "<", "/", "l", ">", "\n",
      "<", "/", "read_", "file", ">", "\n", "\n">>

\* C9: an opening tag that starts a line, and the closing tag of an object, has
\* max(0, d - 1) tabs before it, d the number of objects open; the rendering of
\* {"l":{"r":[1,2]}} has <l> without a tab and each <r> after one tab.
C9_Indentation ==
    /\ \A i \in StreamingCalls : TabsAsOpenObjects(i, NextIteration(i))
    /\ \A i \in DOMAIN doc : doc[i] = NestedDocument => OneShot(doc[i]) = NestedRendering

\* the nested document has been rendered, with its tabs
C9_Witness ==
    \E i \in ValidCalls : doc[i] = NestedDocument /\ out[i] = NestedRendering

\* lines 154-158: the bracket stack is empty, the cursor is greater than 0 and
\* only whitespace is left unconsumed
IsComplete(state) ==
    /\ state.bracketStack = <<>>
    /\ state.cursor > 0
    /\ OnlyWhitespaceFrom(state.arguments, state.cursor)

\* C10: after a processChunk call that leaves an index with an empty bracket
\* stack, the cursor greater than 0 and only whitespace unconsumed, the outer
\* closing tag with its two newlines has been returned for the index, and
\* processChunk never returns it twice for an index.
C10_CompletionDetection ==
    \A i \in DOMAIN processingStates :
        finalizeCalls = 0 =>
            /\ Occurrences(out[i], CloseFunctionTag(ReadFile)) <= 1
            /\ IsComplete(processingStates[i])
                  => Occurrences(out[i], CloseFunctionTag(ReadFile)) = 1

\* the indices whose opening function tag has not been returned
Unconfirmed == {i \in Indices : i \notin DOMAIN processingStates \/ ~processingStates[i].functionNameOutputted}

\* the XML that one delta with the name and the arguments returns from a new processor
SingleDelta(i, name, arguments) == ProcessDelta(<<>>, <<>>, Delta(i, "", name, arguments)).xml

\* C11: a processChunk call for an index whose name has not been valid yet
\* returns nothing for the index while the accumulated name stays invalid, and
\* in the call that makes the name valid it returns what one delta with that
\* name and all the arguments text accumulated returns from a new processor.
C11_LateName ==
    [][last'.op = "processChunk" =>
          \A i \in Unconfirmed :
              out'[i] = out[i] \o (IF IsValidToolName(NameOf(i)')
                                    THEN SingleDelta(i, NameOf(i)', ArgumentsOf(i)')
                                    ELSE <<>>)]_vars

\* arguments have accumulated under the first fragment of the name, without output
C11_Witness ==
    \E i \in Unconfirmed :
        /\ NameOf(i) = <<"read_">>
        /\ Fed(i) = Len(doc[i])
        /\ doc[i] \in Docs
        /\ out[i] = <<>>

\* the ToolCallParam of processChunkTool(chunk), without the processor's fields
ResultRecord(r) ==
    [toolName |-> r.toolName, toolUserId |-> r.toolUserId, chunkContent |-> r.chunkContent,
     anthropicContent |-> r.anthropicContent, originContent |-> r.calls]

\* r, the answer of a processor to a chunk, is n, the answer of a new processor:
\* the same result record, and the same calls and states left
AnswersAsNew(r, n) == ResultRecord(r) = ResultRecord(n) /\ r.calls = n.calls /\ r.states = n.states

\* the chunks of the response that a caller may feed to a new processor
FirstChunks(i) ==
    { <<Delta(i, "call_0", n, SubSeq(doc[i], 1, k))>> : <<n, k>> \in {<<"read_">>, ReadFile, <<"x">>} \X {0, 1, 2, Len(doc[i])} }

\* C12: after reset() the processor has the fields of a newly constructed one,
\* so that processChunkTool for any chunk, and finalize(), return what they
\* return on a new processor and leave the processor as they leave a new one.
C12_ResetRestoresInitial ==
    last.op = "reset" =>
        /\ accumulatedToolCalls = <<>>
        /\ processingStates = <<>>
        /\ \A i \in DOMAIN doc : \A chunk \in FirstChunks(i) :
              AnswersAsNew(processChunkOpenAIFormat(accumulatedToolCalls, processingStates, chunk),
                           processChunkOpenAIFormat(<<>>, <<>>, chunk))
        /\ finalize(accumulatedToolCalls, processingStates) = finalize(<<>>, <<>>)

\* reset() has been called on a processor that was used
C12_Witness ==
    /\ last.op = "reset"
    /\ DOMAIN accumulatedToolCalls = {}
    /\ DOMAIN processingStates = {}
    /\ \A i \in Indices : out[i] = <<>>

\* the entry of index i alone
Only(f, i) == IF i \in DOMAIN f THEN (i :> f[i]) ELSE <<>>

\* the loop of processChunkOpenAIFormat over the chunk, from the processor's fields
AfterDeltas(chunk) ==
    ProcessDeltas([calls |-> accumulatedToolCalls, states |-> processingStates,
                   xmlOutput |-> <<>>, frags |-> <<>>], chunk)

\* p, the outcome of a chunk with one delta for index i, leaves every other
\* index as it is and has no XML for it
LeavesOthers(i, p) ==
    \A j \in Indices \ {i} :
        /\ j \in DOMAIN p.calls <=> j \in DOMAIN accumulatedToolCalls
        /\ j \in DOMAIN p.calls =>
              p.calls[j] = accumulatedToolCalls[j] /\ p.states[j] = processingStates[j]
        /\ FragOf(p.frags, j) = <<>>

\* x and y are the results of ProcessDelta for the deltas of a chunk of two
\* indices i and j, and p is the outcome of the chunk
ConcatenatesInOrder(i, j, x, y, p) ==
    /\ p.xmlOutput = x.xml \o y.xml
    /\ FragOf(p.frags, i) = x.xml /\ FragOf(p.frags, j) = y.xml
    /\ p.calls[i] = x.toolCall /\ p.states[i] = x.state
    /\ p.calls[j] = y.toolCall /\ p.states[j] = y.state

\* C13: in every reachable state, a delta for index i changes the call and the
\* state of no other index and returns what it returns when index i is the only
\* one the processor holds; a chunk with a delta for index i and the first delta
\* of another index j, in this order, returns the fragments of its deltas one
\* after the other.
C13_IndexIndependence ==
    /\ \A i \in DOMAIN doc : \A d \in NextDeltas(i) :
          /\ LeavesOthers(i, AfterDeltas(<<d>>))
          /\ ProcessDelta(accumulatedToolCalls, processingStates, d)
                = ProcessDelta(Only(accumulatedToolCalls, i), Only(processingStates, i), d)
    /\ \A i \in DOMAIN doc : \A j \in DOMAIN doc \ (DOMAIN accumulatedToolCalls \cup {i}) :
          \A d \in NextDeltas(i) : \A e \in NextDeltas(j) :
              ConcatenatesInOrder(i, j,
                                  ProcessDelta(accumulatedToolCalls, processingStates, d),
                                  ProcessDelta(accumulatedToolCalls, processingStates, e),
                                  AfterDeltas(<<d, e>>))

\* two calls stream side by side: each has returned XML and waits for more
C13_Witness ==
    /\ DOMAIN doc = {0, 1}
    /\ \A i \in DOMAIN doc :
          /\ i \in DOMAIN processingStates
          /\ processingStates[i].functionNameOutputted
          /\ 0 < processingStates[i].cursor
          /\ Fed(i) < Len(doc[i])
          /\ out[i] # <<>>
    /\ last.index = 1

\* the call of the last delta of the last chunk has a valid name
LastCallValid ==
    /\ last.op = "processChunk"
    /\ last.index \in DOMAIN accumulatedToolCalls
    /\ IsValidToolName(NameOf(last.index))

\* content is the structured input of the true parse of the arguments text
FromTrueParse(toolCall, content) ==
    /\ content.present
    /\ content.input = (IF IsJson(toolCall.arguments) THEN toolCall.arguments ELSE <<>>)

\* content is the structured input that tmpInput, the result of the repair
\* routine, gives: the text it parsed, or none when it is unavailable
FromRepair(tmpInput, content) ==
    IF tmpInput.parsed /\ ~ParsesToNull(tmpInput.text)
    THEN content.present /\ content.input = tmpInput.text
    ELSE ~content.present

\* C14: after a processChunk call for a validly named call, the anthropicContent
\* of the result is that of tryBuildTemporaryJson while the call is not closed
\* (none when the repair is unavailable), and that of JSON.parse of the whole
\* accumulated arguments once the call is closed.
C14_StructuredInputSource ==
    LastCallValid =>
        IF processingStates[last.index].functionClosed
        THEN FromTrueParse(accumulatedToolCalls[last.index], last.anthropicContent)
        ELSE FromRepair(tryBuildTemporaryJson(processingStates[last.index], ArgumentsOf(last.index)),
                        last.anthropicContent)

\* an open call whose structured input is a repaired text, not the text received
C14_Witness ==
    /\ LastCallValid
    /\ ~processingStates[last.index].functionClosed
    /\ last.anthropicContent.present
    /\ last.anthropicContent.input # ArgumentsOf(last.index)
    /\ doc[last.index] \in Docs

\* C15: after a processChunk call that leaves a validly named call closed while
\* its whole accumulated arguments text is not JSON, the result has an
\* anthropicContent whose input is the empty string, and nothing was raised.
C15_FinalParseFailureAbsorbed ==
    /\ LastCallValid
    /\ processingStates[last.index].functionClosed
    /\ ~IsJson(ArgumentsOf(last.index))
    => /\ last.anthropicContent.present
       /\ last.anthropicContent.input = <<>>
       /\ last.anthropicContent.name = NameOf(last.index)
       /\ ~threw

\* a call was closed on text that JSON.parse rejects, and the empty string returned
C15_Witness ==
    /\ LastCallValid
    /\ processingStates[last.index].functionClosed
    /\ ArgumentsOf(last.index) # <<>>
    /\ ~IsJson(ArgumentsOf(last.index))
    /\ last.anthropicContent.present
    /\ last.anthropicContent.input = <<>>

\* documents with a primitive value of several characters: the value, the
\* character of it that no tag has, and the position of its last character
PrimitiveDocuments ==
    { [document |-> Chars("{\"n\":252 }"), value |-> <<"2", "5", "2">>, mark |-> "5", end |-> 8],
      [document |-> Chars("{\"a\":1,\"b\":null}"), value |-> <<"n", "u", "l", "l">>, mark |-> "u", end |-> 15] }

\* nothing of the value is in xml, or the value is there once and whole, before its closing tag
WholeOrAbsent(xml, value, mark) ==
    \/ Occurrences(xml, <<mark>>) = 0
    \/ /\ Occurrences(xml, <<mark>>) = 1
       /\ Occurrences(xml, <<">">> \o value \o <<"<", "/">>) = 1

\* C16: the XML returned for a call has no character of an unquoted primitive
\* until a character after the primitive has been consumed, and then has the
\* primitive once and whole: 252 that comes as `25` and `2 }` is returned as 252.
C16_NoSpeculativePrimitive ==
    \A i \in ValidCalls : \A p \in PrimitiveDocuments :
        doc[i] = p.document =>
            /\ WholeOrAbsent(out[i], p.value, p.mark)
            /\ Occurrences(out[i], <<p.mark>>) > 0 => processingStates[i].cursor > p.end
            /\ finalizeCalls = 0 /\ Fed(i) = Len(doc[i]) => Occurrences(out[i], <<p.mark>>) = 1

\* the first delta of the number ended inside it: 25 is buffered, nothing of it returned
C16_Witness ==
    \E i \in ValidCalls :
        /\ doc[i] = Chars("{\"n\":252 }")
        /\ processingStates[i].primitiveBuffer = <<"2", "5">>
        /\ processingStates[i].cursor = Fed(i)
        /\ out[i] = OpenFunctionTag(ReadFile) \o <<"\n", "<", "n", ">">>

\* from p on, with the tags of open unclosed: every closing tag closes the most
\* recent unclosed opening tag, and no tag is unclosed at the end
RECURSIVE BalancedFrom(_, _, _)
BalancedFrom(xml, p, open) ==
    IF p > Len(xml) THEN open = <<>>
    ELSE IF xml[p] # "<" \/ TagEnd(xml, p) = 0 THEN BalancedFrom(xml, p + 1, open)
    ELSE IF xml[p + 1] = "/"
    THEN /\ open # <<>>
         /\ open[Len(open)] = SubSeq(xml, p + 2, TagEnd(xml, p) - 1)
         /\ BalancedFrom(xml, TagEnd(xml, p) + 1, Pop(open))
    ELSE BalancedFrom(xml, TagEnd(xml, p) + 1, Append(open, SubSeq(xml, p + 1, TagEnd(xml, p) - 1)))

\* C17: the XML returned for a valid complete document that came in one delta,
\* whatever the nesting of its objects and arrays, is balanced: every opening
\* tag is closed later by a closing tag of its name, in nested order.
C17_ArbitraryNesting ==
    \A i \in ValidCalls :
        Fed(i) = Len(doc[i]) /\ out[i] = OneShot(doc[i]) => BalancedFrom(out[i], 1, <<>>)

\* outside a string, the character consumed last by the call of state s is one
\* that a primitive cannot have
PrimitiveEnded(s) ==
    /\ s.functionNameOutputted
    /\ s.cursor > 0
    /\ ~s.inString
    /\ ~IsPrimitiveChar(s.arguments[s.cursor])

\* C18: once a character that cannot be part of a primitive has been consumed
\* after a primitive (whitespace as well as `,`, `}` and `]`), the primitive has
\* been validated and committed: nothing is left in primitiveBuffer.
C18_PrimitiveTermination ==
    \A i \in ValidCalls :
        PrimitiveEnded(processingStates[i]) => processingStates[i].primitiveBuffer = <<>>

\* C19: once the last character of a valid complete document has been delivered
\* under the registered name, the call is closed: functionClosed is set, the
\* outer closing tag has been returned, once, and the result of the processChunk
\* call for the index has the input parsed from the whole document.
C19_CompletionReached ==
    \A i \in ValidCalls :
        Fed(i) = Len(doc[i]) =>
            /\ processingStates[i].functionClosed
            /\ Occurrences(out[i], CloseFunctionTag(ReadFile)) = 1
            /\ last.op = "processChunk" /\ last.index = i =>
                  /\ last.anthropicContent.present
                  /\ last.anthropicContent.input = doc[i]
                  /\ last.toolName = ReadFile

\* the indices whose call processChunk has closed
ClosedCalls == {i \in DOMAIN processingStates : processingStates[i].functionClosed}

\* the text that the call of index i has consumed starts, after whitespace,
\* with the bracket that opens a root container, and no bracket is open
RootOpenedAndClosed(i) ==
    /\ processingStates[i].bracketStack = <<>>
    /\ SkipWs(processingStates[i].arguments, 1) <= processingStates[i].cursor
    /\ processingStates[i].arguments[SkipWs(processingStates[i].arguments, 1)] \in {"{", "["}

\* C20: the processChunk call that closes the call of a valid document (returns
\* its outer closing tag) leaves it with no bracket open and with a root
\* container that was opened: the text consumed is not whitespace alone.
C20_NoPrematureClose ==
    [][\A i \in DOMAIN doc :
          doc[i] \in Docs /\ i \in ClosedCalls' /\ i \notin ClosedCalls => RootOpenedAndClosed(i)']_vars

\* C21: a processChunk call returns no XML for an index whose call was closed
\* before it, whatever arguments text it delivers.
C21_NothingAfterClose ==
    [][last'.op = "processChunk" => \A i \in ClosedCalls : out'[i] = out[i]]_vars

\* the indices whose opening function tag has been returned
ConfirmedCalls == {i \in DOMAIN processingStates : processingStates[i].functionNameOutputted}

\* C22: a step other than reset() leaves functionNameOutputted and
\* functionClosed set for every index that had them set, and the XML returned
\* for an index has the opening function tag at most once.
C22_OneWayLatches ==
    [][last'.op # "reset" =>
          /\ ConfirmedCalls \subseteq ConfirmedCalls'
          /\ ClosedCalls \subseteq ClosedCalls'
          /\ \A i \in Indices : Occurrences(out'[i], OpenFunctionTag(ReadFile)) <= 1]_vars

\* a call that was closed has been fed more text after that, and is still closed
C22_Witness ==
    \E i \in ClosedCalls :
        /\ doc[i] = Chars("{},{")
        /\ Fed(i) = Len(doc[i])
        /\ processingStates[i].cursor = Fed(i)
        /\ Occurrences(out[i], OpenFunctionTag(ReadFile)) = 1

\* C23: in every reachable state, an index whose functionClosed is set has
\* functionNameOutputted set.
C23_ClosedImpliesConfirmed == ClosedCalls \subseteq ConfirmedCalls

\* a call has been closed, with both its outer tags returned
C23_Witness ==
    \E i \in ClosedCalls :
        /\ i \in ConfirmedCalls
        /\ Occurrences(out[i], OpenFunctionTag(ReadFile)) = 1
        /\ Occurrences(out[i], CloseFunctionTag(ReadFile)) = 1
        /\ doc[i] \in Docs
        /\ Fed(i) = Len(doc[i])

\* the state t of an index after a step that found it in state s: the cursor is
\* not before where it was and is within the buffer, and the buffer is the old
\* one with text appended
CursorAdvances(s, t) ==
    /\ s.cursor <= t.cursor
    /\ 0 <= t.cursor /\ t.cursor <= Len(t.arguments)
    /\ IsPrefix(s.arguments, t.arguments)

\* C24: a processChunk or finalize() step never moves the cursor of an index
\* back nor out of 0..length of the state's arguments buffer, and only appends
\* to the buffer and to the accumulated arguments text.
C24_CursorMonotonic ==
    [][last'.op # "reset" =>
          /\ \A i \in DOMAIN processingStates' :
                CursorAdvances(StateOf(accumulatedToolCalls, processingStates, i), processingStates'[i])
          /\ \A i \in Indices : IsPrefix(ArgumentsOf(i), ArgumentsOf(i)')]_vars

\* finalize() has run on a call that stopped inside its document, the cursor at
\* the end of what was received
C24_Witness ==
    \E i \in ConfirmedCalls :
        /\ finalizeCalls = 1
        /\ last.op = "finalize"
        /\ 0 < processingStates[i].cursor
        /\ processingStates[i].cursor = Len(processingStates[i].arguments)
        /\ processingStates[i].cursor < Len(doc[i])

\* documents with one key before the first value: the tag of the key, and the
\* positions of the closing quote of the key and of the colon after it
KeyDocuments ==
    { [document |-> Chars("{\"\\u0041\":1}"), tag |-> "A", quote |-> 9, colon |-> 10],
      [document |-> Chars("{\"n\":252 }"), tag |-> "n", quote |-> 4, colon |-> 5] }

\* xml has nothing but the function tags and newlines
OnlyFunctionTags(xml) == \A k \in 1..Len(xml) : xml[k] \in {"<", ">", "/", "\n", "read_", "file"}

\* C25: nothing of a key is in the XML returned while the key has no closing
\* quote, no opening tag of the key while the colon after it is not consumed,
\* and the opening tag that is returned at last, once, has the JSON-unescaped
\* text of the key for name.
C25_KeysBuffered ==
    \A i \in ValidCalls : \A k \in KeyDocuments :
        doc[i] = k.document =>
            /\ processingStates[i].cursor < k.quote => OnlyFunctionTags(out[i])
            /\ processingStates[i].cursor < k.colon => Occurrences(out[i], <<"<", k.tag, ">">>) = 0
            /\ processingStates[i].cursor >= k.colon => Occurrences(out[i], <<"<", k.tag, ">">>) = 1

\* a delta ended inside the escape sequence of a key: the key is buffered, and
\* nothing but the opening function tag has been returned
C25_Witness ==
    \E i \in ValidCalls :
        /\ doc[i] = Chars("{\"\\u0041\":1}")
        /\ processingStates[i].inString
        /\ ~processingStates[i].isStreamingStringValue
        /\ processingStates[i].currentString = <<"\\", "u", "0">>
        /\ out[i] = OpenFunctionTag(ReadFile) \o <<"\n">>

\* the ordinary characters x begins with: those before its first backslash or quote
OrdinaryPrefix(x) ==
    SubSeq(x, 1, CHOOSE n \in 0..Len(x) :
                    /\ \A k \in 1..n : x[k] \notin {"\\", "\""}
                    /\ n < Len(x) => x[n + 1] \in {"\\", "\""})

\* the text of the string value that state s has not consumed begins with an
\* escape sequence that is not whole
AtIncompleteEscape(s) ==
    /\ s.cursor < Len(s.arguments)
    /\ s.arguments[s.cursor + 1] = "\\"
    /\ getFullEscapeSequence(s.arguments, s.cursor) = <<>>

\* state s of a confirmed call is inside a string value
InStringValue(s) == s.functionNameOutputted /\ s.inString /\ s.isStreamingStringValue

\* C26: a processChunk call that delivers characters to a confirmed call that
\* is inside a string value, with nothing of the value left unconsumed, returns
\* for that call the ordinary characters the delivered text begins with; and a
\* call that is left inside a string value has consumed all the text delivered,
\* or stands at an escape sequence that is not whole.
C26_ValuesStreamed ==
    [][last'.op = "processChunk" =>
          \A i \in DOMAIN processingStates' :
              /\ (/\ i \in DOMAIN processingStates
                  /\ InStringValue(processingStates[i])
                  /\ processingStates[i].cursor = Fed(i))
                 => IsPrefix(out[i] \o OrdinaryPrefix(SubSeq(ArgumentsOf(i)', Fed(i) + 1, Fed(i)')), out'[i])
              /\ InStringValue(processingStates'[i])
                 => \/ processingStates'[i].cursor = Fed(i)'
                    \/ AtIncompleteEscape(processingStates'[i])]_vars

\* two ordinary characters were delivered inside a string value and returned
C26_Witness ==
    \E i \in ConfirmedCalls :
        /\ last.op = "processChunk"
        /\ InStringValue(processingStates[i])
        /\ ArgumentsOf(i) = Chars("{\"s\":\"hi")
        /\ processingStates[i].cursor = Fed(i)
        /\ out[i] = OpenFunctionTag(ReadFile) \o <<"\n">> \o onOpenTag(<<"s">>) \o <<"h", "i">>

\* the beginnings of an escape sequence that a buffer can end with: a lone
\* backslash, or \u with fewer than four characters after it
PartialEscapes ==
    { <<"\\">>, <<"\\", "u">>, <<"\\", "u", "0">>, <<"\\", "u", "0", "0">>, <<"\\", "u", "0", "0", "4">> }

\* state s with partial escape p for the text it has not consumed
EndingWith(s, p) == [s EXCEPT !.arguments = SubSeq(@, 1, s.cursor) \o p]

\* processArguments stops at once on state s: nothing returned, no field changed
Pauses(s) == processArguments(s) = [state |-> s, xml |-> <<>>]

\* C27: in every reachable state inside a string value, processArguments on
\* the consumed text followed by a partial escape sequence returns nothing and
\* changes no field: the cursor stays at the backslash.
C27_IncompleteEscapePauses ==
    \A i \in DOMAIN processingStates :
        (processingStates[i].inString /\ processingStates[i].isStreamingStringValue) =>
            \A p \in PartialEscapes : Pauses(EndingWith(processingStates[i], p))

\* processChunk returned with the cursor at the backslash of \u00, after the
\* opening tags only
C27_Witness ==
    \E i \in ValidCalls :
        /\ last.op = "processChunk"
        /\ processingStates[i].arguments = Chars("{\"a\":\"\\u00")
        /\ processingStates[i].cursor = 6
        /\ processingStates[i].isStreamingStringValue
        /\ out[i] = OpenFunctionTag(ReadFile) \o <<"\n">> \o onOpenTag(<<"a">>)

EmptyArrayDocument == Chars("{\"e\":[]}")

\* C28: once the whole document {"e":[]} has been consumed for a call with an
\* accepted name, the XML returned for it has one opening tag <e>, directly
\* followed by its closing tag, and one closing tag </e>: the tag of the key is
\* not left open.
C28_EmptyArray ==
    \A i \in ValidCalls :
        (doc[i] = EmptyArrayDocument /\ Fed(i) = Len(doc[i]) /\ finalizeCalls = 0) =>
            /\ Occurrences(out[i], onOpenTag(<<"e">>)) = 1
            /\ Occurrences(out[i], onCloseTag(<<"e">>)) = 1
            /\ Occurrences(out[i], onOpenTag(<<"e">>) \o onCloseTag(<<"e">>)) = 1

\* the concatenation of two id fragments
IdConcat(a, b) == IF a = "" THEN b ELSE IF b = "" THEN a ELSE a \o b

\* C29: in every reachable state, processChunk with any next delta of a call
\* leaves, for the id held for the index and for the call id of the result
\* record, the id held before followed by the id fragment of the delta.
C29_IdAccumulation ==
    \A i \in DOMAIN doc : \A d \in NextDeltas(i) :
        /\ Accumulate(accumulatedToolCalls, d).id = IdConcat(IdOf(i), d.id)
        /\ ResultRecord(processChunkOpenAIFormat(accumulatedToolCalls, processingStates, <<d>>)).toolUserId
              = IdConcat(IdOf(i), d.id)

\* r, the outcome of processChunkOpenAIFormat for a chunk, has the calls, the
\* states and the XML that p, the outcome of its loop over the deltas, has
SameAsLoop(r, p) ==
    /\ r.calls = p.calls
    /\ r.states = p.states
    /\ r.frags = p.frags
    /\ r.chunkContent = p.xmlOutput

LastInStringValue ==
    /\ LastCallValid
    /\ finalizeCalls = 0
    /\ doc[last.index] \in Docs
    /\ ~processingStates[last.index].functionClosed
    /\ InStringValue(processingStates[last.index])

\* the text consumed by state s, with the string value it is in ended and every
\* open bracket closed: the key in progress has the characters of the value
\* received so far, less the partial escape sequence that is not consumed
ConsumedAndClosed(s) == CloseBrackets(SubSeq(s.arguments, 1, s.cursor) \o <<"\"">>, s.bracketStack)

\* C31: after a processChunk call that leaves the call of its last delta inside
\* a string value, the result has an anthropicContent, and its input is the
\* arguments received with only the partial escape sequence at their end
\* removed, the string ended and the brackets closed.
C31_RepairInsideString ==
    LastInStringValue =>
        /\ last.anthropicContent.present
        /\ last.anthropicContent.input = ConsumedAndClosed(processingStates[last.index])

\* partially received primitives, and the text of the value each stands for
PartialPrimitives ==
    { [buffer |-> Chars("tru"), value |-> Chars("true")],
      [buffer |-> Chars("fals"), value |-> Chars("false")],
      [buffer |-> Chars("nul"), value |-> Chars("null")],
      [buffer |-> Chars("-"), value |-> Chars("-0")],
      [buffer |-> Chars("-1."), value |-> Chars("-1.0")] }

\* the call of the last processChunk, when its name is accepted and its state,
\* not closed, has consumed arguments of a document of Docs that end with the
\* primitive buffer pb
LastInPrimitive(pb) ==
    /\ LastCallValid
    /\ finalizeCalls = 0
    /\ doc[last.index] \in Docs
    /\ ~processingStates[last.index].functionClosed
    /\ ~processingStates[last.index].inString
    /\ processingStates[last.index].primitiveBuffer = pb
    /\ processingStates[last.index].cursor = Fed(last.index)

\* the arguments of state s with value in the place of the partial primitive pb
\* they end with, and every open bracket closed
WithValue(s, pb, value) ==
    CloseBrackets(SubSeq(s.arguments, 1, Len(s.arguments) - Len(pb)) \o value, s.bracketStack)

\* C32: after a processChunk call that leaves the call of its last delta at the
\* partial primitive tru, fals, nul, - or -1., the result has an
\* anthropicContent whose input has true, false, null, -0 or -1.0 for the value
\* of the key in progress.
C32_RepairPartialPrimitive ==
    \A p \in PartialPrimitives :
        LastInPrimitive(p.buffer) =>
            /\ last.anthropicContent.present
            /\ last.anthropicContent.input = WithValue(processingStates[last.index], p.buffer, p.value)

\* the arguments end with "f":fals and the input has "f":false
C32_Witness ==
    /\ LastInPrimitive(Chars("fals"))
    /\ last.anthropicContent.present
    /\ last.anthropicContent.input = Chars("{\"t\":true,\"f\":false}")
    /\ ArgumentsOf(last.index) = Chars("{\"t\":true,\"f\":fals")

\* C33: after a processChunk call that leaves the call of its last delta with
\* the primitive buffer n, the repair appends nothing to the arguments text
\* for the partial token, and the result has no anthropicContent.
C33_AmbiguousNotGuessed ==
    LastInPrimitive(<<"n">>) =>
        /\ CompleteToken(processingStates[last.index], ArgumentsOf(last.index)) = ArgumentsOf(last.index)
        /\ ~last.anthropicContent.present

\* the call of the last processChunk, when its name is accepted and its state,
\* not closed, has consumed arguments of a document of Docs that end with the
\* colon after a key
LastAfterColon ==
    /\ LastInPrimitive(<<>>)
    /\ processingStates[last.index].parserState = "EXPECT_VALUE"
    /\ findLastNonWhitespaceChar(ArgumentsOf(last.index)) = ":"

\* C34: after a processChunk call that leaves the call of its last delta right
\* after the colon of a key, the result has an anthropicContent whose input is
\* the arguments with null for the value of that key and every open bracket
\* closed.
C34_NullWhereValueExpected ==
    LastAfterColon =>
        /\ last.anthropicContent.present
        /\ last.anthropicContent.input = WithValue(processingStates[last.index], <<>>, Chars("null"))

\* the calls with an accepted name that the first finalize() has just ended
\* while a document of Docs was not whole
TruncatedCalls ==
    {i \in ValidCalls : /\ last.op = "finalize" /\ finalizeCalls = 1
                        /\ doc[i] \in Docs /\ Fed(i) < Len(doc[i])}

\* C35: after finalize() on a truncated stream, a primitive value that is
\* complete as it stands and whose characters the cursor has consumed is in the
\* XML returned for the call.
C35_OnlyUnreachedLost ==
    \A i \in TruncatedCalls :
        (/\ processingStates[i].cursor = Fed(i)
         /\ processingStates[i].primitiveBuffer # <<>>
         /\ IsValidPrimitive(processingStates[i].primitiveBuffer))
        => Occurrences(out[i], processingStates[i].primitiveBuffer) >= 1

\* the closing function tag of finalize(), for the name of the opening tag
FinalCloseTag == <<"<", "/">> \o ReadFile \o <<">", "\n">>

\* the calls whose opening function tag has been returned and that processChunk
\* has not closed
OpenCalls == ConfirmedCalls \ ClosedCalls

\* the XML that a step has added for index i
Added(i) == SubSeq(out[i]', Len(out[i]) + 1, Len(out[i]'))

\* C36: finalize() returns, for every call whose opening function tag has been
\* returned and that processChunk has not closed, the closing function tag with
\* the name of the opening tag.
C36_EveryOpenedCallClosed ==
    [][last'.op = "finalize" =>
          \A i \in OpenCalls : Occurrences(Added(i), FinalCloseTag) = 1]_vars

\* x is the beginning of an escape sequence and not a whole one: a lone
\* backslash, or \u with fewer than four characters after it
IsPartialEscape(x) ==
    \/ x = <<"\\">>
    \/ Len(x) \in 2..5 /\ x[1] = "\\" /\ x[2] = "u"

\* the text that state s has not consumed
Unconsumed(s) == SubSeq(s.arguments, s.cursor + 1, Len(s.arguments))

\* C37: whatever the arguments text, the state of a call whose name is
\* confirmed has consumed all of its buffer but for a partial escape sequence
\* at its end: the cursor is short of the end only at an escape sequence that
\* is not whole, and it has moved on once the characters that make the
\* sequence whole have arrived.
C37_NoPermanentStall ==
    \A i \in ConfirmedCalls :
        processingStates[i].cursor < Len(processingStates[i].arguments) =>
            IsPartialEscape(Unconsumed(processingStates[i]))

\* the result record r of a chunk describes the call of index i as the chunk
\* has left it: its name when accepted, its id, and the input built from its
\* arguments and its state
Describes(r, i) ==
    /\ r.toolName = (IF IsValidToolName(r.calls[i].name) THEN r.calls[i].name ELSE <<>>)
    /\ r.toolUserId = r.calls[i].id
    /\ r.anthropicContent = AnthropicContent(r.calls[i], r.states[i])
    /\ r.anthropicContent.present =>
          /\ r.anthropicContent.id = r.calls[i].id
          /\ r.anthropicContent.name = r.calls[i].name

\* the result record r of a chunk without deltas describes index 0, or no call
\* when index 0 has none
DescribesFirst(r) ==
    IF 0 \in DOMAIN r.calls THEN Describes(r, 0)
    ELSE r.toolName = <<>> /\ r.toolUserId = "" /\ ~r.anthropicContent.present

\* C38: in every reachable state, the result record of processChunk describes
\* the call of the index of the last delta of the chunk: for a chunk of one
\* delta of any index, with or without the index in the delta, for a chunk of
\* two deltas of different indices, and, for a chunk without deltas, index 0.
C38_ResultDescribesLastDelta ==
    /\ DescribesFirst(processChunkOpenAIFormat(accumulatedToolCalls, processingStates, <<>>))
    /\ \A i \in DOMAIN doc : \A d \in NextDeltas(i) :
          /\ Describes(processChunkOpenAIFormat(accumulatedToolCalls, processingStates, <<d>>), i)
          /\ \A j \in DOMAIN doc \ (DOMAIN accumulatedToolCalls \cup {i}) : \A e \in NextDeltas(j) :
                Describes(processChunkOpenAIFormat(accumulatedToolCalls, processingStates, <<e, d>>), i)

\* a chunk with a delta for index 0 and then a delta for index 1 was answered
\* with the id and the input of the call of index 1
C38_Witness ==
    /\ last.op = "processChunk" /\ last.index = 1
    /\ DOMAIN accumulatedToolCalls = {0, 1}
    /\ NameOf(0) = ReadFile /\ ArgumentsOf(0) = doc[0]
    /\ last.toolName = ReadFile
    /\ last.toolUserId = "call_1"
    /\ last.anthropicContent.present
    /\ last.anthropicContent.id = "call_1"
    /\ last.anthropicContent.input = Chars("{\"b\":2}")

\* r, the outcome of an iteration of the loop on state s, has moved the cursor
\* forward
MovesOn(s, r) == r.state.cursor > s.cursor

\* r, the outcome of an iteration on state s, has committed the primitive of
\* the buffer without moving the cursor, and the next iteration moves it
CommitsThenMovesOn(s, r) ==
    /\ r.state.cursor = s.cursor
    /\ s.primitiveBuffer # <<>> /\ r.state.primitiveBuffer = <<>>
    /\ s.parserState = "EXPECT_VALUE" /\ r.state.parserState = "EXPECT_COMMA_OR_CLOSING"
    /\ MovesOn(r.state, Iteration(r.state))

\* r, the outcome of an iteration on state s, is one of the three outcomes
Progress(s, r) == r.ret \/ MovesOn(s, r) \/ CommitsThenMovesOn(s, r)

\* the loop of processArguments on state s makes progress in every iteration
\* and ends within fuel iterations
RECURSIVE EndsWithin(_, _)
EndsWithin(s, fuel) ==
    IF s.cursor >= Len(s.arguments) THEN TRUE
    ELSE IF fuel = 0 THEN FALSE
    ELSE Progress(s, Iteration(s))
         /\ (Iteration(s).ret \/ EndsWithin(Iteration(s).state, fuel - 1))

\* the state of index i when its buffer gets all the rest of the document
WithRest(i) == [StateOf(accumulatedToolCalls, processingStates, i) EXCEPT !.arguments = doc[i]]

\* C39: from every reachable state of a call, with all the rest of its document
\* in the buffer, every iteration of the loop of processArguments returns,
\* moves the cursor forward, or commits a primitive and lets the next
\* iteration move the cursor; and the loop ends within two iterations for each
\* character that is not consumed.
C39_TranscoderTerminates ==
    \A i \in DOMAIN doc :
        EndsWithin(WithRest(i), 2 * (Len(doc[i]) - StateOf(accumulatedToolCalls, processingStates, i).cursor))

\* the loop is about to commit the primitive 252 at a closing brace: an
\* iteration that does not move the cursor
C39_Witness ==
    \E i \in ValidCalls :
        /\ doc[i] = Chars("{\"n\":252 }")
        /\ processingStates[i].primitiveBuffer = Chars("252")
        /\ processingStates[i].cursor = 9
        /\ Iteration(WithRest(i)).state.cursor = 9
        /\ Iteration(WithRest(i)).state.primitiveBuffer = <<>>
        /\ processArguments(WithRest(i)).state.cursor = 10

\* the set of the elements of sequence q
Range(q) == {q[k] : k \in 1..Len(q)}

\* C40: what getToolAvailability returns, for any arguments: xmlTools and
\* toolCallTools have no tool in common and together have exactly the tools of
\* availableTools; toolCallTools is empty unless settings.toolCallEnabled is
\* true, and then it has exactly the available tools that the registry supports.
C40_AvailabilityPartition ==
    toolAvailability.returned =>
        /\ Range(toolAvailability.result.xmlTools) \cap Range(toolAvailability.result.toolCallTools) = {}
        /\ Range(toolAvailability.result.xmlTools) \cup Range(toolAvailability.result.toolCallTools)
              = Range(toolAvailability.result.availableTools)
        /\ toolArgs.toolCallEnabled # "true" => toolAvailability.result.toolCallTools = <<>>
        /\ toolArgs.toolCallEnabled = "true" =>
              Range(toolAvailability.result.toolCallTools)
                 = {t \in Range(toolAvailability.result.availableTools) : t \in RegisteredTools}

\* with toolCallEnabled, a registered tool is a tool-call tool and the tool
\* that is not registered an XML tool
C40_Witness ==
    /\ toolAvailability.returned
    /\ toolArgs.toolCallEnabled = "true"
    /\ toolAvailability.result.availableTools = << <<"read_", "file">>, <<"x">> >>
    /\ toolAvailability.result.toolCallTools = << <<"read_", "file">> >>
    /\ toolAvailability.result.xmlTools = << <<"x">> >>

====
